---- MODULE Spec2Model ----
(***************************************************************************)
(* A model of white-rAbbIt: the score fusion of the GUI                    *)
(* (whiterAbbIt.calculate_overall_score) and the sequential dynamic        *)
(* analysis run (DependencyChecker, DynamicAnalysisFramework).             *)
(*                                                                         *)
(* Probabilities are fixed-point numbers: an input probability p is the    *)
(* integer p*Scale, and a combined probability q is the integer q*Den      *)
(* with Den = (wd+ws)*Scale, the weights being counted in tenths.  The     *)
(* certainty score s (a percentage) is the integer s*Den.                  *)
(***************************************************************************)
EXTENDS Integers, Sequences, FiniteSets, TLC

\* ------------------------------------------------------------------ bounds

\* resolution of the input probabilities: steps of 1/Scale
Scale == 20

\* calls of calculate_overall_score that are counted (the counter saturates)
MaxCalls == 3

\* ticks of time.sleep(self.duration)
Duration == 2

\* lines of a captured artifact that a parse pass reads
MaxLines == 1

\* parse methods that run as overlapping threads
MaxOverlap == 2

\* runs of the dependency gate on the same host and device
MaxGateRuns == 2

\* clicks on 'Dynamic Analysis' of the GUI
MaxDynamicRuns == 2

\* frames of check_emulator_ready the interpreter's stack has room for
\* (sys.getrecursionlimit() is 1000)
RecursionLimit == 3

\* ---------------------------------------------------------------- fusion

VARIABLES
    has_static,                  \* hasattr(self, 'static_prediction')
    static_prediction,           \* self.static_prediction[0]: 0 benign, 1 malicious
    static_predict_probability,  \* self.static_predict_probability[0][1], times Scale
    dyn_state,                   \* "absent": no attribute; "none": classifier returned None; "ok"
    dynamic_classification,      \* self.dynamic_classification: 0 benign, 1 malicious
    dynamic_confidence_score,    \* self.dynamic_confidence_score, times Scale
    has_outcome,                 \* self.P_combined, ... have been assigned
    P_combined,                  \* self.P_combined, times Den
    certainty_score,             \* self.certainty_score, times Den
    static_classification,       \* self.static_classification
    hybrid_class,                \* self.hybrid_class
    P_local,                     \* the local P_combined of the last call at line 641, times Den
    log_msg,                     \* the last line calculate_overall_score appended to the log
    calls                        \* completed calls of calculate_overall_score (saturating)

fusionVars == <<has_static, static_prediction, static_predict_probability,
                dyn_state, dynamic_classification, dynamic_confidence_score,
                has_outcome, P_combined, certainty_score, static_classification,
                hybrid_class, P_local, log_msg, calls>>

\* the state of one run of DynamicAnalysisFramework.run_analysis
VARIABLES
    pc,                 \* position of run_analysis
    exit_reason,        \* why sys.exit(1) was called, "" if it was not
    host_tools,         \* the required host tools that are on the PATH of the host
    device_seen,        \* what is_device_connected returned: "unchecked", "connected", "absent"
    precondition_checks,\* checks of the host tools and of the device made so far
    dev_libc,           \* /data/local/tmp/libc++_shared.so is on the device
    dev_path_tools,     \* the device tools that `which` finds on the device
    installed,          \* the tools pushed to /data/local/tmp and made executable
    gate_reads,         \* the device-side checks perform_checks has made
    push_issued,        \* the adb push commands issued: "libc" or a tool
    attempted,          \* the tools the install loop has iterated over
    todo,               \* the rest of `tools` in install_missing_device_tools
    install_caller,     \* "libc": called at line 133; "tools": called at line 142
    stage,              \* the stage whose run() is executing, "none" outside the stages
    step,               \* position inside that run()
    slept,              \* ticks of the sleep that have elapsed
    raised,             \* the sleep raised: an exception is pending in the finally block
    proc,               \* per stage, the Popen object: "none", "running", "signalled", "exited"
    sink,               \* per stage, the output file: "none", "open", "closed"
    stop_calls,         \* per stage, calls of its stop_* method
    remote_kill,        \* the outcome of `adb shell pkill <tool>` in this stage: "none", "ok", "failed"
    counts,             \* the counters of the parse pass, in the order of the stage's keys
    dynamic_features,   \* the aggregate: feature key -> value
    lock,               \* dynamic_features_lock: the stage holding it, or "none"
    saved_doc,          \* the content of dynamic_features.json
    save_count,         \* successful writes of dynamic_features.json
    ended,              \* the stages whose run() has returned or raised
    degraded,           \* the stages in which something failed
    stage_log,          \* what the stages logged as errors or warnings: <<stage, what>>
    phases              \* the phases of the run entered so far, in order

gateVars == <<host_tools, device_seen, precondition_checks, dev_libc, dev_path_tools,
              installed, gate_reads, push_issued, attempted, todo, install_caller>>

stageVars == <<stage, step, slept, raised, proc, sink, stop_calls, remote_kill, counts>>

aggregateVars == <<dynamic_features, lock, saved_doc, save_count>>

historyVars == <<ended, degraded, stage_log>>

runVars == <<pc, exit_reason, gateVars, stageVars, aggregateVars, historyVars, phases>>

\* the parse methods of the four stages called as threads that share the
\* aggregate and its lock (the overlap of stage completions the lock is for)
VARIABLES
    parser,             \* per stage, the position of its parse method
    parser_counts       \* per stage, the counters of its parse method not yet written

parseVars == <<parser, parser_counts>>

\* ---- the first version of the script, src/.entire_dynamic_analysis.py
VARIABLES
    legacy_main,     \* the *_main function that runs: a stage, "idle", "done", "crashed"
    legacy_step,     \* the statement that function is at
    legacy_process,         \* per stage, the Popen handle: "none", "running", "signalled", "exited"
    outfile,         \* per stage, the host file given to Popen: "none", "open", "closed"
    elapsed,         \* ticks of time.sleep(DURATION) that have passed
    pending,         \* an exception left the try block and waits behind the finally
    device_kill,     \* per stage, what adb shell pkill <tool> came to: "none", "ok", "failed"
    pulled,          \* per stage, what adb pull came to: "none", "ok", "failed"
    tcpdump_pushed   \* check_tcpdump_on_device pushed the binary

legacyVars == <<legacy_main, legacy_step, legacy_process, outfile, elapsed, pending,
                device_kill, pulled, tcpdump_pushed>>

\* ---- the GUI's dynamic analysis: EmulatorThread, PcapDataProcessor and the slots
VARIABLES
    emulator_thread,  \* self.emulator_thread: the fields and the position of its run()
    worker,           \* self.worker, the PcapDataProcessor: "none", "started", "failed", "emitted", "delivered"
    host_pcap,        \* the file emu_tcpdump_results on the host: "absent", "stale", "fresh"
    classified,       \* calls of dynamic_clasification_and_XAI since the thread was started
    dynamic_runs,     \* clicks on 'Dynamic Analysis' that started a thread
    apk_file,         \* self.apk_file, the selected APK; "" when none is
    static_workers,   \* the APKs a FeatureExtractionWorker is running for
    static_of,        \* the APK the stored static result was computed from ("" none)
    dynamic_of        \* the APK the stored dynamic result was computed for ("" none)

\* the threads of the dynamic analysis and what they leave on the host
captureVars == <<emulator_thread, worker, host_pcap, classified, dynamic_runs>>

\* the selection, and which APK each stored result belongs to (the GUI itself
\* keeps no such record)
selectionVars == <<apk_file, static_workers, static_of, dynamic_of>>

guiVars == <<captureVars, selectionVars>>

\* the state of the programs an action of another program leaves alone
\* the fusion of calculate_overall_score in IEEE-754 doubles
VARIABLES
    double_static,      \* P_static
    double_class,       \* dynamic_classification
    double_confidence,  \* dynamic_confidence_score
    double_P_dynamic,   \* P_dynamic after lines 634-635 (<<>> before the call)
    double_P_combined,  \* P_combined of line 641 (<<>> before the call)
    double_overall      \* overall_classification (-1 before the call)

doubleVars == <<double_static, double_class, double_confidence, double_P_dynamic,
                double_P_combined, double_overall>>

\* __main__ of the v6 script, up to its call of run_analysis
VARIABLES
    main_pc,             \* position of __main__ and, inside it, of install_app
    apk_path,            \* the selected APK file, "" when the dialog was cancelled
    package_name,        \* framework.package_name, "" while unset
    app_on_device,       \* the package on the device: "absent", "previous", "new"
    install_issued_over, \* what was on the device when adb install was issued, "none" before
    main_exit            \* why sys.exit(1) was called here, "" if it was not

mainVars == <<main_pc, apk_path, package_name, app_on_device, install_issued_over, main_exit>>

otherVars == <<legacyVars, guiVars, doubleVars, mainVars>>

\* weights of the two analyses, in tenths
wd == 6
ws == 4

\* 1.0 as a combined probability
Den == (wd + ws) * Scale

Abs(x) == IF x < 0 THEN 0 - x ELSE x

Min(a, b) == IF a < b THEN a ELSE b

Probabilities == 0 .. Scale

Classes == {0, 1}

P_dynamic_NoInversion(d, c) == c

P_dynamic_Negated(d, c) == IF d = 0 THEN 0 - c ELSE c

\* lines 629-634: the dynamic confidence as a probability of malicious
P_dynamic(d, c) == IF d = 0 THEN Scale - c ELSE c

\* line 641
CombineProbabilities(pd, ps) == (wd * pd) + (ws * ps)

\* line 644: abs(P_combined - 0.5) * 100
CertaintyScore(pcomb) == Abs(2 * pcomb - Den) * 50

OverallClassification_Strict(pcomb) == IF 2 * pcomb > Den THEN 1 ELSE 0

\* line 648
OverallClassification(pcomb) == IF 2 * pcomb >= Den THEN 1 ELSE 0

BenignAdjustment_Either(s, d, pcomb) == IF d = 0 \/ s = 0 THEN Den - pcomb ELSE pcomb

\* lines 651-652
BenignAdjustment(s, d, pcomb) == IF d = 0 /\ s = 0 THEN Den - pcomb ELSE pcomb

StoredDynamicClassification_Overall(d, overall) == overall

\* line 657: self.dynamic_classification = dynamic_classification
StoredDynamicClassification(d, overall) == d

\* lines 677-693
HybridClass(overall) == IF overall = 1 THEN "Malicious" ELSE "Benign"

FusionInit ==
    /\ has_static \in BOOLEAN
    /\ static_prediction \in (IF has_static THEN Classes ELSE {0})
    /\ static_predict_probability \in (IF has_static THEN Probabilities ELSE {0})
    /\ dyn_state \in {"absent", "none", "ok"}
    /\ dynamic_classification \in (IF dyn_state = "ok" THEN Classes ELSE {0})
    /\ dynamic_confidence_score \in (IF dyn_state = "ok" THEN Probabilities ELSE {0})
    /\ has_outcome = FALSE
    /\ P_combined = 0
    /\ certainty_score = 0
    /\ static_classification = 0
    /\ hybrid_class = ""
    /\ P_local = 0
    /\ log_msg = ""
    /\ calls = 0

ResultsMissing_StaticOnly(hs, ds) == ~hs

ResultsMissing_NoneIsMissing(hs, ds) == ~hs \/ ds # "ok"

\* line 618: not hasattr(self, 'static_prediction') or
\* not hasattr(self, 'dynamic_classification')
ResultsMissing(hs, ds) == ~hs \/ ds = "absent"

\* lines 618-620: one of the two results is missing
CalcMissing ==
    /\ ResultsMissing(has_static, dyn_state)
    /\ log_msg' = "Both static and dynamic analyses must be completed"
    /\ calls' = Min(calls + 1, MaxCalls)
    /\ UNCHANGED <<has_static, static_prediction, static_predict_probability,
                   dyn_state, dynamic_classification, dynamic_confidence_score,
                   has_outcome, P_combined, certainty_score, static_classification,
                   hybrid_class, P_local>>
    /\ UNCHANGED <<runVars, parseVars, otherVars>>

\* lines 629-641 and 699-701: the dynamic confidence is None, wd * None raises
CalcRaises ==
    /\ ~ResultsMissing(has_static, dyn_state) /\ dyn_state # "ok"
    /\ log_msg' = "Error computing overall classification"
    /\ calls' = Min(calls + 1, MaxCalls)
    /\ UNCHANGED <<has_static, static_prediction, static_predict_probability,
                   dyn_state, dynamic_classification, dynamic_confidence_score,
                   has_outcome, P_combined, certainty_score, static_classification,
                   hybrid_class, P_local>>
    /\ UNCHANGED <<runVars, parseVars, otherVars>>

\* lines 622-697
CalcFuses ==
    /\ ~ResultsMissing(has_static, dyn_state) /\ dyn_state = "ok"
    /\ LET s  == static_prediction
           d  == dynamic_classification
           pcomb == CombineProbabilities(P_dynamic(d, dynamic_confidence_score),
                                      static_predict_probability)
           overall == OverallClassification(pcomb)
       IN  /\ P_local' = pcomb
           /\ certainty_score' = CertaintyScore(pcomb)
           /\ P_combined' = BenignAdjustment(s, d, pcomb)
           /\ static_classification' = s
           /\ dynamic_classification' = StoredDynamicClassification(d, overall)
           /\ hybrid_class' = HybridClass(overall)
    /\ has_outcome' = TRUE
    /\ log_msg' = "Combined Probability Calculation Complete"
    /\ calls' = Min(calls + 1, MaxCalls)
    /\ UNCHANGED <<has_static, static_prediction, static_predict_probability,
                   dyn_state, dynamic_confidence_score>>
    /\ UNCHANGED <<runVars, parseVars, otherVars>>

calculate_overall_score == CalcMissing \/ CalcRaises \/ CalcFuses


\* ------------------------------------------------- dynamic analysis run


\* lines 21-22
REQUIRED_HOST_TOOLS == {"adb", "tshark"}

REQUIRED_DEVICE_TOOLS == <<"strace", "inotifywait", "tcpdump">>

Range(s) == {s[i] : i \in 1 .. Len(s)}

\* lines 624-666: the four stages in the order run_analysis runs them
Stages == <<"log", "syscall", "filesystem", "network">>

StageSet == Range(Stages)

StageIndex(st) == CHOOSE i \in 1 .. Len(Stages) : Stages[i] = st

\* the keys each stage's parse method writes, in the order it writes them
StageKeys(st) ==
    CASE st = "log"        -> <<"log_errors", "log_warnings">>
      [] st = "syscall"    -> <<"system_calls_count", "file_access_calls", "network_calls">>
      [] st = "filesystem" -> <<"files_created", "files_deleted">>
      [] st = "network"    -> <<"network_connections", "data_sent_bytes", "data_received_bytes">>

\* the stage resolves the pid of the app first (line 424)
NeedsPid(st) == st = "syscall"

\* the stage opens its output file itself (lines 279, 462)
HasSink(st) == st \in {"log", "filesystem"}

\* stop runs `adb shell pkill <tool>` first (lines 385, 474, 552)
HasRemoteKill(st) == st \in {"syscall", "filesystem", "network"}

RunParses_All(st) == TRUE

\* the finally block of run() calls the stage's parse method (lines 335, 519);
\* SystemCallMonitor.run and NetworkCapture.run end with pull_* (lines 440, 603)
RunParses(st) == st \in {"log", "filesystem"}

EmptyFeatures == [k \in {} |-> 0]

RunInit ==
    /\ pc = "gate_host"
    /\ exit_reason = ""
    /\ host_tools \in SUBSET REQUIRED_HOST_TOOLS
    /\ device_seen = "unchecked"
    /\ precondition_checks = 0
    /\ dev_libc \in BOOLEAN
    /\ dev_path_tools \in SUBSET Range(REQUIRED_DEVICE_TOOLS)
    /\ installed = {}
    /\ gate_reads = {}
    /\ push_issued = {}
    /\ attempted = {}
    /\ todo = <<>>
    /\ install_caller = "none"
    /\ stage = "none"
    /\ step = "none"
    /\ slept = 0
    /\ raised = FALSE
    /\ proc = [st \in StageSet |-> "none"]
    /\ sink = [st \in StageSet |-> "none"]
    /\ stop_calls = [st \in StageSet |-> 0]
    /\ remote_kill = "none"
    /\ counts = <<>>
    /\ dynamic_features = EmptyFeatures
    /\ lock = "none"
    /\ saved_doc = EmptyFeatures
    /\ save_count = 0
    /\ ended = {}
    /\ degraded = {}
    /\ stage_log = {}
    /\ phases = <<"gate">>

\* sys.exit(1)
Exit(reason) ==
    /\ pc' = "exited"
    /\ exit_reason' = reason

\* ---- DependencyChecker.perform_checks

HostToolsFatal_Never(missing) == FALSE

\* lines 118-120
HostToolsFatal(missing) == missing # {}

\* lines 117-121
CheckHostTools ==
    /\ pc = "gate_host"
    /\ precondition_checks' = precondition_checks + 1
    /\ LET missing_host_tools == REQUIRED_HOST_TOOLS \ host_tools
       IN  IF HostToolsFatal(missing_host_tools)
           THEN Exit("host_tools")
           ELSE pc' = "gate_device" /\ UNCHANGED exit_reason
    /\ UNCHANGED <<host_tools, device_seen, dev_libc, dev_path_tools, installed,
                   gate_reads, push_issued, attempted, todo, install_caller>>
    /\ UNCHANGED <<stageVars, aggregateVars, historyVars, phases>>
    /\ UNCHANGED <<fusionVars, parseVars, otherVars>>

\* lines 124-127; is_device_connected (lines 42-53) answers for the device
CheckDeviceConnected ==
    /\ pc = "gate_device"
    /\ precondition_checks' = precondition_checks + 1
    /\ \E connected \in BOOLEAN :
          IF connected
          THEN /\ device_seen' = "connected"
               /\ pc' = "gate_libc"
               /\ UNCHANGED exit_reason
          ELSE /\ device_seen' = "absent"
               /\ Exit("no_device")
    /\ UNCHANGED <<host_tools, dev_libc, dev_path_tools, installed,
                   gate_reads, push_issued, attempted, todo, install_caller>>
    /\ UNCHANGED <<stageVars, aggregateVars, historyVars, phases>>
    /\ UNCHANGED <<fusionVars, parseVars, otherVars>>

\* lines 130-135
CheckDeviceLibc ==
    /\ pc = "gate_libc"
    /\ gate_reads' = gate_reads \cup {"libc"}
    /\ IF ~dev_libc
       THEN /\ pc' = "install_libc"
            /\ todo' = <<>>
            /\ install_caller' = "libc"
       ELSE /\ pc' = "gate_tools"
            /\ UNCHANGED <<todo, install_caller>>
    /\ UNCHANGED <<exit_reason, host_tools, device_seen, precondition_checks, dev_libc,
                   dev_path_tools, installed, push_issued, attempted>>
    /\ UNCHANGED <<stageVars, aggregateVars, historyVars, phases>>
    /\ UNCHANGED <<fusionVars, parseVars, otherVars>>

\* lines 138-144; is_device_tool_installed (lines 64-71) runs `which` on the device
CheckDeviceTools ==
    /\ pc = "gate_tools"
    /\ gate_reads' = gate_reads \cup Range(REQUIRED_DEVICE_TOOLS)
    /\ LET missing_device_tools ==
               SelectSeq(REQUIRED_DEVICE_TOOLS, LAMBDA tool : tool \notin dev_path_tools)
       IN  IF missing_device_tools # <<>>
           THEN /\ pc' = "install_libc"
                /\ todo' = missing_device_tools
                /\ install_caller' = "tools"
           ELSE /\ pc' = "check_app"
                /\ UNCHANGED <<todo, install_caller>>
    /\ UNCHANGED <<exit_reason, host_tools, device_seen, precondition_checks, dev_libc,
                   dev_path_tools, installed, push_issued, attempted>>
    /\ UNCHANGED <<stageVars, aggregateVars, historyVars, phases>>
    /\ UNCHANGED <<fusionVars, parseVars, otherVars>>

\* ---- DependencyChecker.install_missing_device_tools

\* lines 82-84: libc++_shared.so is not among the files of the host
InstallLibcNoHostFile ==
    /\ pc = "install_libc"
    /\ Exit("libc_not_on_host")
    /\ UNCHANGED <<gateVars, stageVars, aggregateVars, historyVars, phases>>
    /\ UNCHANGED <<fusionVars, parseVars, otherVars>>

\* lines 86-93: push and chmod of libc++_shared.so; either may fail
InstallLibcPush ==
    /\ pc = "install_libc"
    /\ push_issued' = push_issued \cup {"libc"}
    /\ \E outcome \in {"ok", "push_failed", "chmod_failed"} :
          /\ dev_libc' = (dev_libc \/ outcome # "push_failed")
          /\ IF outcome = "ok"
             THEN pc' = "install_tools" /\ UNCHANGED exit_reason
             ELSE Exit("libc_push_failed")
    /\ UNCHANGED <<host_tools, device_seen, precondition_checks, dev_path_tools, installed,
                   gate_reads, attempted, todo, install_caller>>
    /\ UNCHANGED <<stageVars, aggregateVars, historyVars, phases>>
    /\ UNCHANGED <<fusionVars, parseVars, otherVars>>

AfterToolFailure_Abandons(rest) == <<>>

\* line 100 (`continue`) and lines 105-106 (the except clause only logs): the
\* loop goes on with the rest of the tools
AfterToolFailure(rest) == rest

\* lines 96-106: one iteration of the loop over `tools`
InstallTool ==
    /\ pc = "install_tools"
    /\ todo # <<>>
    /\ LET tool == Head(todo)
       IN  /\ attempted' = attempted \cup {tool}
           /\ \E outcome \in {"no_binary", "push_failed", "chmod_failed", "ok"} :
                 /\ push_issued' = IF outcome = "no_binary" THEN push_issued
                                                           ELSE push_issued \cup {tool}
                 /\ installed' = IF outcome = "ok" THEN installed \cup {tool} ELSE installed
                 /\ todo' = IF outcome = "ok" THEN Tail(todo)
                                              ELSE AfterToolFailure(Tail(todo))
    /\ UNCHANGED <<pc, exit_reason, host_tools, device_seen, precondition_checks, dev_libc,
                   dev_path_tools, gate_reads, install_caller>>
    /\ UNCHANGED <<stageVars, aggregateVars, historyVars, phases>>
    /\ UNCHANGED <<fusionVars, parseVars, otherVars>>

\* the loop is over: back in perform_checks, after line 133 or after line 142
InstallReturn ==
    /\ pc = "install_tools"
    /\ todo = <<>>
    /\ pc' = IF install_caller = "libc" THEN "gate_tools" ELSE "check_app"
    /\ install_caller' = "none"
    /\ UNCHANGED <<exit_reason, host_tools, device_seen, precondition_checks, dev_libc,
                   dev_path_tools, installed, gate_reads, push_issued, attempted, todo>>
    /\ UNCHANGED <<stageVars, aggregateVars, historyVars, phases>>
    /\ UNCHANGED <<fusionVars, parseVars, otherVars>>

\* line 613 of a later run: the gate is run again on the same host and device;
\* what the earlier run pushed to /data/local/tmp is still there
perform_checks_again ==
    /\ pc = "check_app"
    /\ precondition_checks < 2 * MaxGateRuns
    /\ pc' = "gate_host"
    /\ device_seen' = "unchecked"
    /\ gate_reads' = {}
    /\ push_issued' = {}
    /\ attempted' = {}
    /\ UNCHANGED <<exit_reason, host_tools, precondition_checks, dev_libc, dev_path_tools,
                   installed, todo, install_caller>>
    /\ UNCHANGED <<stageVars, aggregateVars, historyVars, phases>>
    /\ UNCHANGED <<fusionVars, parseVars, otherVars>>

perform_checks ==
    \/ CheckHostTools
    \/ CheckDeviceConnected
    \/ CheckDeviceLibc
    \/ CheckDeviceTools
    \/ InstallLibcNoHostFile
    \/ InstallLibcPush
    \/ InstallTool
    \/ InstallReturn


\* ---- the stages: LogCollector, SystemCallMonitor, FileSystemMonitor, NetworkCapture

\* what one line of the artifact adds to each counter of the stage's parse pass
\* (lines 304-308, 402-407, 488-492, 569-575)
LineIncrements(st) ==
    CASE st = "log"        -> {<<e, w>> : e \in 0 .. 1, w \in 0 .. 1}
      [] st = "syscall"    -> {<<1, f, n>> : f \in 0 .. 1, n \in 0 .. 1}
      [] st = "filesystem" -> {<<c, d>> : c \in 0 .. 1, d \in 0 .. 1}
      [] st = "network"    -> {<<a, b, c>> : a \in 0 .. 1, b \in 0 .. 1, c \in 0 .. 1}

Artifacts(st) == UNION {[1 .. n -> LineIncrements(st)] : n \in 0 .. MaxLines}

RECURSIVE SumColumn(_, _)
SumColumn(lines, i) ==
    IF lines = <<>> THEN 0 ELSE Head(lines)[i] + SumColumn(Tail(lines), i)

\* the counters after the loop over the lines
ParseCounts(st, lines) == [i \in 1 .. Len(StageKeys(st)) |-> SumColumn(lines, i)]

\* the first thing run() does
FirstStep(st) ==
    IF NeedsPid(st) THEN "pid" ELSE IF HasSink(st) THEN "open" ELSE "spawn"

\* the first thing stop_* does with a process (lines 290-291, 384-385, 473-474, 551-552)
StopFirstStep(st) == IF HasRemoteKill(st) THEN "kill" ELSE "terminate"

\* what the finally block does after stop_*
AfterStop(st) == IF RunParses(st) THEN "parse" ELSE "finish"

StopPlan_Unguarded(st, process, file) ==
    (IF HasRemoteKill(st) THEN <<"kill">> ELSE <<>>) \o <<"terminate", "wait">>
        \o (IF HasSink(st) /\ file # "none" THEN <<"close">> ELSE <<>>)

\* stop_logcat, stop_strace, stop_inotifywait, stop_tcpdump (lines 286-294,
\* 380-387, 469-478, 547-554): what a call does, given the handle and the file
\* it is passed ("none" for None)
StopPlan(st, process, file) ==
    (IF process # "none"
     THEN (IF HasRemoteKill(st) THEN <<"kill">> ELSE <<>>) \o <<"terminate", "wait">>
     ELSE <<>>)
        \o (IF HasSink(st) /\ file # "none" THEN <<"close">> ELSE <<>>)

StopOnException_Skipped == FALSE

\* lines 328-335: the sleep is in try, stop_* in finally
StopOnException == TRUE

NextStage_Swapped(st) ==
    CASE st = "log" -> "filesystem"
      [] st = "filesystem" -> "syscall"
      [] st = "syscall" -> "network"
      [] OTHER -> "none"

NextStage_SkipsNetwork(st) ==
    CASE st = "log" -> "syscall"
      [] st = "syscall" -> "filesystem"
      [] OTHER -> "none"

\* lines 632, 644, 655, 666
NextStage(st) ==
    IF StageIndex(st) < Len(Stages) THEN Stages[StageIndex(st) + 1] ELSE "none"

\* a stage's run() is called
EnterStage(st, ph) ==
    /\ pc' = "stage"
    /\ stage' = st
    /\ step' = FirstStep(st)
    /\ slept' = 0
    /\ raised' = FALSE
    /\ remote_kill' = "none"
    /\ phases' = Append(ph, st)

\* the current stage's run() returns, or the pending exception leaves run_analysis
LeaveStage(exc) ==
    /\ ended' = ended \cup {stage}
    /\ IF exc
       THEN /\ pc' = "crashed"
            /\ stage' = "none"
            /\ step' = "none"
            /\ UNCHANGED <<slept, raised, remote_kill, phases>>
       ELSE IF NextStage(stage) # "none"
            THEN EnterStage(NextStage(stage), phases)
            ELSE /\ pc' = "save"
                 /\ stage' = "none"
                 /\ step' = "none"
                 /\ phases' = Append(phases, "save")
                 /\ UNCHANGED <<slept, raised, remote_kill>>

\* lines 616-622: check_app_installed (lines 176-191)
CheckAppInstalled ==
    /\ pc = "check_app"
    /\ \E app_installed \in BOOLEAN :
          IF app_installed
          THEN /\ pc' = "launch_app"
               /\ phases' = Append(phases, "app")
               /\ UNCHANGED <<stage, step, slept, raised, remote_kill>>
          ELSE EnterStage(Stages[1], Append(phases, "app"))
    /\ UNCHANGED <<exit_reason, gateVars, proc, sink, stop_calls, counts,
                   aggregateVars, historyVars>>
    /\ UNCHANGED <<fusionVars, parseVars, otherVars>>

\* lines 250-259: a launch that fails is logged, run_analysis goes on either way
LaunchApp ==
    /\ pc = "launch_app"
    /\ EnterStage(Stages[1], phases)
    /\ UNCHANGED <<exit_reason, gateVars, proc, sink, stop_calls, counts,
                   aggregateVars, historyVars>>
    /\ UNCHANGED <<fusionVars, parseVars, otherVars>>

SkipWithoutPid_Ignored == FALSE

\* lines 425-427: without a pid run() returns at once
SkipWithoutPid == TRUE

\* lines 351-366 and 424-427: the pid of the app; get_app_pid logs that the app
\* is not running (line 362) or that pidof failed (line 365)
GetAppPid ==
    /\ pc = "stage" /\ step = "pid"
    /\ \E pid_found \in BOOLEAN :
          /\ stage_log' = IF pid_found THEN stage_log
                                       ELSE stage_log \cup {<<stage, "no_pid">>}
          /\ degraded' = IF pid_found THEN degraded ELSE degraded \cup {stage}
          /\ IF pid_found \/ ~SkipWithoutPid
             THEN /\ step' = IF HasSink(stage) THEN "open" ELSE "spawn"
                  /\ UNCHANGED <<pc, stage, slept, raised, remote_kill, phases, ended>>
             ELSE LeaveStage(FALSE)
    /\ UNCHANGED <<exit_reason, gateVars, proc, sink, stop_calls, counts,
                   aggregateVars>>
    /\ UNCHANGED <<fusionVars, parseVars, otherVars>>

\* lines 279 and 462: open(..., 'w') succeeds
OpenSink ==
    /\ pc = "stage" /\ step = "open"
    /\ sink' = [sink EXCEPT ![stage] = "open"]
    /\ step' = "spawn"
    /\ UNCHANGED <<pc, exit_reason, gateVars, stage, slept, raised, proc, stop_calls,
                   remote_kill, counts, aggregateVars, historyVars, phases>>
    /\ UNCHANGED <<fusionVars, parseVars, otherVars>>

\* lines 282-284 and 325-327: open raises, start_* returns (None, None), run() returns
OpenSinkFails ==
    /\ pc = "stage" /\ step = "open"
    /\ degraded' = degraded \cup {stage}
    /\ stage_log' = stage_log \cup {<<stage, "open_failed">>}
    /\ LeaveStage(FALSE)
    /\ UNCHANGED <<exit_reason, gateVars, proc, sink, stop_calls, counts,
                   aggregateVars>>
    /\ UNCHANGED <<fusionVars, parseVars, otherVars>>

\* lines 280, 374, 463, 541: Popen succeeds; run() goes on to the sleep
StartCapture ==
    /\ pc = "stage" /\ step = "spawn"
    /\ proc' = [proc EXCEPT ![stage] = "running"]
    /\ step' = "sleep"
    /\ slept' = 0
    /\ UNCHANGED <<pc, exit_reason, gateVars, stage, raised, sink, stop_calls,
                   remote_kill, counts, aggregateVars, historyVars, phases>>
    /\ UNCHANGED <<fusionVars, parseVars, otherVars>>

\* lines 282-284, 376-378, 465-467, 543-545: Popen raises, start_* returns None and
\* run() returns.  A file start_* had opened is closed by no statement: it is
\* closed when the interpreter finalizes the unreachable file object, if it does.
StartCaptureFails ==
    /\ pc = "stage" /\ step = "spawn"
    /\ degraded' = degraded \cup {stage}
    /\ stage_log' = stage_log \cup {<<stage, "spawn_failed">>}
    /\ \E finalized \in BOOLEAN :
          sink' = IF sink[stage] = "open" /\ finalized
                  THEN [sink EXCEPT ![stage] = "closed"]
                  ELSE sink
    /\ LeaveStage(FALSE)
    /\ UNCHANGED <<exit_reason, gateVars, proc, stop_calls, counts,
                   aggregateVars>>
    /\ UNCHANGED <<fusionVars, parseVars, otherVars>>

\* time.sleep(self.duration): one tick elapses
SleepTick ==
    /\ pc = "stage" /\ step = "sleep"
    /\ slept < Duration
    /\ slept' = slept + 1
    /\ UNCHANGED <<pc, exit_reason, gateVars, stage, step, raised, proc, sink, stop_calls,
                   remote_kill, counts, aggregateVars, historyVars, phases>>
    /\ UNCHANGED <<fusionVars, parseVars, otherVars>>

SleepOver_Anytime(s) == TRUE

\* time.sleep(self.duration) returns when the duration has passed
SleepOver(s) == s = Duration

\* the sleep returns and the finally block calls stop_*
SleepReturns ==
    /\ pc = "stage" /\ step = "sleep"
    /\ SleepOver(slept)
    /\ stop_calls' = [stop_calls EXCEPT ![stage] = @ + 1]
    /\ step' = StopFirstStep(stage)
    /\ UNCHANGED <<pc, exit_reason, gateVars, stage, slept, raised, proc, sink,
                   remote_kill, counts, aggregateVars, historyVars, phases>>
    /\ UNCHANGED <<fusionVars, parseVars, otherVars>>

\* the sleep raises (KeyboardInterrupt): the finally block runs with the
\* exception pending
SleepRaises ==
    /\ pc = "stage" /\ step = "sleep"
    /\ raised' = TRUE
    /\ degraded' = degraded \cup {stage}
    /\ IF StopOnException
       THEN /\ stop_calls' = [stop_calls EXCEPT ![stage] = @ + 1]
            /\ step' = StopFirstStep(stage)
       ELSE /\ step' = "finish"
            /\ UNCHANGED stop_calls
    /\ UNCHANGED <<pc, exit_reason, gateVars, stage, slept, proc, sink,
                   remote_kill, counts, aggregateVars, ended, stage_log, phases>>
    /\ UNCHANGED <<fusionVars, parseVars, otherVars>>

\* lines 385, 474, 552: subprocess.run([adb, 'shell', 'pkill', tool]) without
\* check=True returns whatever the exit status of the command is
RemoteKill ==
    /\ pc = "stage" /\ step = "kill"
    /\ \E killed \in BOOLEAN : remote_kill' = IF killed THEN "ok" ELSE "failed"
    /\ step' = "terminate"
    /\ UNCHANGED <<pc, exit_reason, gateVars, stage, slept, raised, proc, sink, stop_calls,
                   counts, aggregateVars, historyVars, phases>>
    /\ UNCHANGED <<fusionVars, parseVars, otherVars>>

\* process.terminate()
Terminate ==
    /\ pc = "stage" /\ step = "terminate"
    /\ proc' = [proc EXCEPT ![stage] = "signalled"]
    /\ step' = "wait"
    /\ UNCHANGED <<pc, exit_reason, gateVars, stage, slept, raised, sink, stop_calls,
                   remote_kill, counts, aggregateVars, historyVars, phases>>
    /\ UNCHANGED <<fusionVars, parseVars, otherVars>>

\* process.wait() returns when the process has exited
Wait ==
    /\ pc = "stage" /\ step = "wait"
    /\ proc' = [proc EXCEPT ![stage] = "exited"]
    /\ step' = IF HasSink(stage) THEN "close" ELSE AfterStop(stage)
    /\ UNCHANGED <<pc, exit_reason, gateVars, stage, slept, raised, sink, stop_calls,
                   remote_kill, counts, aggregateVars, historyVars, phases>>
    /\ UNCHANGED <<fusionVars, parseVars, otherVars>>

\* lines 293-294 and 477-478
CloseSink ==
    /\ pc = "stage" /\ step = "close"
    /\ sink' = [sink EXCEPT ![stage] = "closed"]
    /\ step' = AfterStop(stage)
    /\ UNCHANGED <<pc, exit_reason, gateVars, stage, slept, raised, proc, stop_calls,
                   remote_kill, counts, aggregateVars, historyVars, phases>>
    /\ UNCHANGED <<fusionVars, parseVars, otherVars>>

\* the parse method reads the artifact and counts (lines 300-308 and alike)
ParseReads ==
    /\ pc = "stage" /\ step = "parse"
    /\ \E lines \in Artifacts(stage) : counts' = ParseCounts(stage, lines)
    /\ step' = "lock"
    /\ UNCHANGED <<pc, exit_reason, gateVars, stage, slept, raised, proc, sink, stop_calls,
                   remote_kill, aggregateVars, historyVars, phases>>
    /\ UNCHANGED <<fusionVars, parseVars, otherVars>>

ParseFailureEscapes_Uncaught == TRUE

\* lines 313-314, 497-498: `except Exception` in the parse method takes the
\* failure; nothing leaves the method
ParseFailureEscapes == FALSE

\* the artifact is missing or cannot be read: the except clause logs it
ParseFails ==
    /\ pc = "stage" /\ step = "parse"
    /\ degraded' = degraded \cup {stage}
    /\ stage_log' = stage_log \cup {<<stage, "parse_failed">>}
    /\ raised' = (raised \/ ParseFailureEscapes)
    /\ step' = "finish"
    /\ UNCHANGED <<pc, exit_reason, gateVars, stage, slept, proc, sink, stop_calls,
                   remote_kill, counts, aggregateVars, ended, phases>>
    /\ UNCHANGED <<fusionVars, parseVars, otherVars>>

LockFree_Always(l) == TRUE

\* threading.Lock: acquire returns when no one holds the lock
LockFree(l) == l = "none"

\* with self.lock:
AcquireLock ==
    /\ pc = "stage" /\ step = "lock"
    /\ LockFree(lock)
    /\ lock' = stage
    /\ step' = "write"
    /\ UNCHANGED <<pc, exit_reason, gateVars, stage, slept, raised, proc, sink, stop_calls,
                   remote_kill, counts, dynamic_features, saved_doc, save_count,
                   historyVars, phases>>
    /\ UNCHANGED <<fusionVars, parseVars, otherVars>>

\* one assignment self.dynamic_features[key] = counter
WriteKey ==
    /\ pc = "stage" /\ step = "write"
    /\ counts # <<>>
    /\ LET keys == StageKeys(stage)
           key  == keys[Len(keys) - Len(counts) + 1]
       IN  dynamic_features' = (key :> Head(counts)) @@ dynamic_features
    /\ counts' = Tail(counts)
    /\ step' = IF Tail(counts) = <<>> THEN "unlock" ELSE "write"
    /\ UNCHANGED <<pc, exit_reason, gateVars, stage, slept, raised, proc, sink, stop_calls,
                   remote_kill, lock, saved_doc, save_count, historyVars, phases>>
    /\ UNCHANGED <<fusionVars, parseVars, otherVars>>

\* the with block is left
ReleaseLock ==
    /\ pc = "stage" /\ step = "unlock"
    /\ lock' = "none"
    /\ step' = "finish"
    /\ UNCHANGED <<pc, exit_reason, gateVars, stage, slept, raised, proc, sink, stop_calls,
                   remote_kill, counts, dynamic_features, saved_doc, save_count,
                   historyVars, phases>>
    /\ UNCHANGED <<fusionVars, parseVars, otherVars>>

\* the finally block is over: run() returns, or the pending exception propagates
FinishStage ==
    /\ pc = "stage" /\ step = "finish"
    /\ LeaveStage(raised)
    /\ UNCHANGED <<exit_reason, gateVars, proc, sink, stop_calls, counts,
                   aggregateVars, degraded, stage_log>>
    /\ UNCHANGED <<fusionVars, parseVars, otherVars>>

\* lines 673-681: json.dump of the aggregate; a failure is logged
save_dynamic_features ==
    /\ pc = "save"
    /\ pc' = "done"
    /\ \E written \in BOOLEAN :
          IF written
          THEN /\ saved_doc' = dynamic_features
               /\ save_count' = save_count + 1
          ELSE UNCHANGED <<saved_doc, save_count>>
    /\ UNCHANGED <<exit_reason, gateVars, stageVars, dynamic_features, lock,
                   historyVars, phases>>
    /\ UNCHANGED <<fusionVars, parseVars, otherVars>>

StageRun ==
    \/ GetAppPid
    \/ OpenSink
    \/ OpenSinkFails
    \/ StartCapture
    \/ StartCaptureFails
    \/ SleepTick
    \/ SleepReturns
    \/ SleepRaises
    \/ RemoteKill
    \/ Terminate
    \/ Wait
    \/ CloseSink
    \/ ParseReads
    \/ ParseFails
    \/ AcquireLock
    \/ WriteKey
    \/ ReleaseLock
    \/ FinishStage

run_analysis ==
    \/ perform_checks
    \/ CheckAppInstalled
    \/ LaunchApp
    \/ StageRun
    \/ save_dynamic_features

\* ---- the parse methods as concurrent threads

\* the parse method of stage st reads its artifact and counts
ParserReads(st) ==
    /\ pc = "parsing" /\ parser[st] = "start"
    /\ \E lines \in Artifacts(st) :
          parser_counts' = [parser_counts EXCEPT ![st] = ParseCounts(st, lines)]
    /\ parser' = [parser EXCEPT ![st] = "lock"]
    /\ UNCHANGED <<runVars, fusionVars, otherVars>>

FailedParseLeaves_FirstKey(st, features) == (StageKeys(st)[1] :> 0) @@ features

\* a parse method counts in local variables and assigns after its loop: when
\* the open, the read or a conversion raises, the except clause only logs and
\* the aggregate is what it was
FailedParseLeaves(st, features) == features

\* the artifact cannot be read, at its first line or at a later one: the
\* except clause logs it and the method returns
ParserFails(st) ==
    /\ pc = "parsing" /\ parser[st] = "start"
    /\ parser' = [parser EXCEPT ![st] = "done"]
    /\ stage_log' = stage_log \cup {<<st, "parse_failed">>}
    /\ dynamic_features' = FailedParseLeaves(st, dynamic_features)
    /\ UNCHANGED <<pc, exit_reason, gateVars, stageVars, lock, saved_doc, save_count,
                   ended, degraded, phases, parser_counts, fusionVars, otherVars>>

\* with self.lock:
ParserAcquires(st) ==
    /\ pc = "parsing" /\ parser[st] = "lock"
    /\ LockFree(lock)
    /\ lock' = st
    /\ parser' = [parser EXCEPT ![st] = "write"]
    /\ UNCHANGED <<pc, exit_reason, gateVars, stageVars, dynamic_features, saved_doc,
                   save_count, historyVars, phases, parser_counts, fusionVars, otherVars>>

\* one assignment self.dynamic_features[key] = counter
ParserWrites(st) ==
    /\ pc = "parsing" /\ parser[st] = "write"
    /\ LET keys == StageKeys(st)
           left == parser_counts[st]
           key  == keys[Len(keys) - Len(left) + 1]
       IN  /\ dynamic_features' = (key :> Head(left)) @@ dynamic_features
           /\ parser_counts' = [parser_counts EXCEPT ![st] = Tail(left)]
           /\ parser' = [parser EXCEPT ![st] = IF Tail(left) = <<>> THEN "unlock" ELSE "write"]
    /\ UNCHANGED <<pc, exit_reason, gateVars, stageVars, lock, saved_doc,
                   save_count, historyVars, phases, fusionVars, otherVars>>

\* the with block is left and the method returns
ParserReleases(st) ==
    /\ pc = "parsing" /\ parser[st] = "unlock"
    /\ lock' = "none"
    /\ parser' = [parser EXCEPT ![st] = "done"]
    /\ UNCHANGED <<pc, exit_reason, gateVars, stageVars, dynamic_features, saved_doc,
                   save_count, historyVars, phases, parser_counts, fusionVars, otherVars>>

\* lines 668-671: every stage is over, run_analysis goes on to the save
ParsersJoined ==
    /\ pc = "parsing"
    /\ \A st \in StageSet : parser[st] \in {"done", "idle"}
    /\ pc' = "save"
    /\ phases' = Append(phases, "save")
    /\ UNCHANGED <<exit_reason, gateVars, stageVars, aggregateVars, historyVars,
                   parseVars, fusionVars, otherVars>>

parse_threads ==
    \/ \E st \in StageSet : ParserReads(st)
    \/ \E st \in StageSet : ParserFails(st)
    \/ \E st \in StageSet : ParserAcquires(st)
    \/ \E st \in StageSet : ParserWrites(st)
    \/ \E st \in StageSet : ParserReleases(st)
    \/ ParsersJoined
    \/ save_dynamic_features

\* ---- the first version of the script: four *_main functions called in order

\* start_logcat and start_inotifywait open a host file in a with block
LegacyHasOutfile(st) == st \in {"log", "filesystem"}

\* stop_strace, stop_inotifywait, stop_tcpdump begin with adb shell pkill <tool>
LegacyHasDeviceKill(st) == st \in {"syscall", "filesystem", "network"}

\* system_calls_recon_main and network_capture_recon_main pull the artifact
LegacyPulls(st) == st \in {"syscall", "network"}

\* the first statement of each *_main
LegacyFirstStep(st) ==
    CASE st = "log"        -> "open"
      [] st = "syscall"    -> "pid"
      [] st = "filesystem" -> "open"
      [] st = "network"    -> "which"

LegacyInit ==
    /\ legacy_main = "log"
    /\ legacy_step = LegacyFirstStep("log")
    /\ legacy_process = [st \in StageSet |-> "none"]
    /\ outfile = [st \in StageSet |-> "none"]
    /\ elapsed = 0
    /\ pending = FALSE
    /\ device_kill = [st \in StageSet |-> "none"]
    /\ pulled = [st \in StageSet |-> "none"]
    /\ tcpdump_pushed = FALSE

\* an exception leaves the *_main and, nothing catching it, the script
LegacyCrash ==
    /\ legacy_main' = "crashed"
    /\ legacy_step' = "none"

\* the *_main returns; __main__ calls the next one
LegacyReturn ==
    /\ legacy_step = "return"
    /\ legacy_main \in StageSet
    /\ IF pending
       THEN LegacyCrash
       ELSE IF NextStage(legacy_main) # "none"
            THEN /\ legacy_main' = NextStage(legacy_main)
                 /\ legacy_step' = LegacyFirstStep(NextStage(legacy_main))
            ELSE /\ legacy_main' = "done"
                 /\ legacy_step' = "none"
    /\ elapsed' = 0
    /\ UNCHANGED <<legacy_process, outfile, pending, device_kill, pulled, tcpdump_pushed>>
    /\ UNCHANGED <<fusionVars, runVars, parseVars, guiVars, doubleVars, mainVars>>

\* get_app_pid: without a pid system_calls_recon_main returns
LegacyGetAppPid ==
    /\ legacy_step = "pid"
    /\ \E pid_found \in BOOLEAN :
          legacy_step' = IF pid_found THEN "spawn" ELSE "return"
    /\ UNCHANGED <<legacy_main, legacy_process, outfile, elapsed, pending, device_kill,
                   pulled, tcpdump_pushed>>
    /\ UNCHANGED <<fusionVars, runVars, parseVars, guiVars, doubleVars, mainVars>>

\* check_tcpdump_on_device: which tcpdump, and a push and a chmod without it
LegacyCheckTcpdump ==
    /\ legacy_step = "which"
    /\ \E on_device \in BOOLEAN : tcpdump_pushed' = ~on_device
    /\ legacy_step' = "spawn"
    /\ UNCHANGED <<legacy_main, legacy_process, outfile, elapsed, pending, device_kill, pulled>>
    /\ UNCHANGED <<fusionVars, runVars, parseVars, guiVars, doubleVars, mainVars>>

\* with open(path, 'w') as outfile: the file is opened, or open raises
LegacyOpen ==
    /\ legacy_step = "open"
    /\ \E opened \in BOOLEAN :
          IF opened
          THEN /\ outfile' = [outfile EXCEPT ![legacy_main] = "open"]
               /\ legacy_step' = "spawn"
               /\ UNCHANGED legacy_main
          ELSE /\ LegacyCrash
               /\ UNCHANGED outfile
    /\ UNCHANGED <<legacy_process, elapsed, pending, device_kill, pulled, tcpdump_pushed>>
    /\ UNCHANGED <<fusionVars, runVars, parseVars, guiVars, doubleVars, mainVars>>

\* subprocess.Popen: the process runs, or Popen raises and the with block, if
\* there is one, closes the file on the way out
LegacySpawn ==
    /\ legacy_step = "spawn"
    /\ \E spawned \in BOOLEAN :
          IF spawned
          THEN /\ legacy_process' = [legacy_process EXCEPT ![legacy_main] = "running"]
               /\ legacy_step' = IF LegacyHasOutfile(legacy_main) THEN "with_exit" ELSE "sleep"
               /\ UNCHANGED <<legacy_main, outfile>>
          ELSE /\ LegacyCrash
               /\ outfile' = IF LegacyHasOutfile(legacy_main)
                             THEN [outfile EXCEPT ![legacy_main] = "closed"]
                             ELSE outfile
               /\ UNCHANGED legacy_process
    /\ UNCHANGED <<elapsed, pending, device_kill, pulled, tcpdump_pushed>>
    /\ UNCHANGED <<fusionVars, runVars, parseVars, guiVars, doubleVars, mainVars>>

\* leaving the with block closes the host file; start_* then returns the handle
LegacyWithExit(f, st) == [f EXCEPT ![st] = "closed"]

\* the with block of start_logcat and start_inotifywait is left
LegacyStartReturns ==
    /\ legacy_step = "with_exit"
    /\ outfile' = LegacyWithExit(outfile, legacy_main)
    /\ legacy_step' = "sleep"
    /\ UNCHANGED <<legacy_main, legacy_process, elapsed, pending, device_kill, pulled,
                   tcpdump_pushed>>
    /\ UNCHANGED <<fusionVars, runVars, parseVars, guiVars, doubleVars, mainVars>>

\* the first thing stop_* does
LegacyStopFirstStep(st) == IF LegacyHasDeviceKill(st) THEN "kill" ELSE "terminate"

\* time.sleep(DURATION): one tick passes
LegacySleepTick ==
    /\ legacy_step = "sleep"
    /\ elapsed < Duration
    /\ elapsed' = elapsed + 1
    /\ UNCHANGED <<legacy_main, legacy_step, legacy_process, outfile, pending, device_kill,
                   pulled, tcpdump_pushed>>
    /\ UNCHANGED <<fusionVars, runVars, parseVars, guiVars, doubleVars, mainVars>>

\* the sleep returns after DURATION, or raises before; finally calls stop_*
LegacySleepEnds ==
    /\ legacy_step = "sleep"
    /\ \E interrupted \in BOOLEAN :
          /\ ~interrupted => elapsed = Duration
          /\ pending' = interrupted
    /\ legacy_step' = LegacyStopFirstStep(legacy_main)
    /\ UNCHANGED <<legacy_main, legacy_process, outfile, elapsed, device_kill, pulled,
                   tcpdump_pushed>>
    /\ UNCHANGED <<fusionVars, runVars, parseVars, guiVars, doubleVars, mainVars>>

\* subprocess.run([ADB_PATH, 'shell', 'pkill', tool])
LegacyDeviceKill ==
    /\ legacy_step = "kill"
    /\ \E killed \in BOOLEAN :
          device_kill' = [device_kill EXCEPT ![legacy_main] = IF killed THEN "ok" ELSE "failed"]
    /\ legacy_step' = "terminate"
    /\ UNCHANGED <<legacy_main, legacy_process, outfile, elapsed, pending, pulled, tcpdump_pushed>>
    /\ UNCHANGED <<fusionVars, runVars, parseVars, guiVars, doubleVars, mainVars>>

\* process.terminate()
LegacyTerminate ==
    /\ legacy_step = "terminate"
    /\ legacy_process' = [legacy_process EXCEPT ![legacy_main] = "signalled"]
    /\ legacy_step' = "wait"
    /\ UNCHANGED <<legacy_main, outfile, elapsed, pending, device_kill, pulled,
                   tcpdump_pushed>>
    /\ UNCHANGED <<fusionVars, runVars, parseVars, guiVars, doubleVars, mainVars>>

\* process.wait(); stop_* returns
LegacyWait ==
    /\ legacy_step = "wait"
    /\ legacy_process' = [legacy_process EXCEPT ![legacy_main] = "exited"]
    /\ legacy_step' = IF LegacyPulls(legacy_main) THEN "pull" ELSE "return"
    /\ UNCHANGED <<legacy_main, outfile, elapsed, pending, device_kill, pulled,
                   tcpdump_pushed>>
    /\ UNCHANGED <<fusionVars, runVars, parseVars, guiVars, doubleVars, mainVars>>

\* pull_strace_output, pull_pcap_file and the rm on the device that follows
LegacyPull ==
    /\ legacy_step = "pull"
    /\ \E ok \in BOOLEAN :
          pulled' = [pulled EXCEPT ![legacy_main] = IF ok THEN "ok" ELSE "failed"]
    /\ legacy_step' = "return"
    /\ UNCHANGED <<legacy_main, legacy_process, outfile, elapsed, pending, device_kill,
                   tcpdump_pushed>>
    /\ UNCHANGED <<fusionVars, runVars, parseVars, guiVars, doubleVars, mainVars>>

legacy_script ==
    \/ LegacyGetAppPid
    \/ LegacyCheckTcpdump
    \/ LegacyOpen
    \/ LegacySpawn
    \/ LegacyStartReturns
    \/ LegacySleepTick
    \/ LegacySleepEnds
    \/ LegacyDeviceKill
    \/ LegacyTerminate
    \/ LegacyWait
    \/ LegacyPull
    \/ LegacyReturn

\* ---- the GUI's dynamic analysis (src/gui/dynamic_feature_extraction_thread.py,
\* src/gui/extracting_formatting_tokenizing_pcap_thread.py, white_rAbbIt_gui.py)

\* install_apk(self, apk_file, max_retries=3)
max_retries == 3

\* what `adb devices` prints: nothing when adb fails, its header line "List of
\* devices attached" alone, or the header and a line "emulator-5554 device"
AdbDevicesOutputs ==
    {"", "List of devices attached", "List of devices attached emulator-5554 device"}

\* line 137: "device" in result.stdout
ContainsDevice(stdout) == stdout # ""

\* the signals of EmulatorThread (lines 17-25), error and log_signal by what
\* they report; log lines no claim is about are left out
Signals ==
    {"emulator_started", "emulator_ready", "apk_installed", "monkey_test",
     "pcap_loaded_to_host",
     "error: starting emulator", "error: emulator process has stopped",
     "error: install failed after retries", "error: adb root",
     "error: tcpdump and Monkey", "error: run",
     "log: Tcpdump started", "log: Tcpdump stopped",
     "log: pulled the file", "log: failed to pull the file"}

\* the APK files the user picks from
APKs == {"a.apk", "b.apk"}

\* EmulatorThread.__init__ (lines 28-40); run() not started
NewThread ==
    [pc |-> "created",
     apk_file |-> "",                 \* self.apk_file of the thread
     process |-> "unset",             \* self.process: "unset", "alive", "stopped"
     depth |-> 0,                     \* frames of check_emulator_ready on the stack
     check_outcome |-> "none",        \* how check_emulator_ready ended: "ready", "stopped", "printed ..."
     retries |-> 0,
     attempts |-> 0,                  \* adb install commands run
     result_bound |-> FALSE,          \* the local `result` of install_apk is bound
     installed |-> FALSE,             \* self.installed
     adb_root_shell_access |-> FALSE,
     emu_kill |-> FALSE,              \* adb emu kill was run
     adb_shell |-> "none",            \* the adb shell of start_tcpdump_and_run_monkey
     tcpdump |-> "none",              \* "none", "running", "stopped"
     monkey |-> "none",               \* "none", "running", "finished"
     monkey_during |-> "none",        \* tcpdump's state when Monkey was started
     slept |-> FALSE,                 \* time.sleep(duration) has returned
     stopped_after |-> "none",        \* what had happened when pkill tcpdump was written
     pull |-> "none",                 \* adb pull: "none", "ok", "failed"
     pull_during |-> "none",          \* tcpdump's state when the pull was attempted
     emitted |-> [s \in Signals |-> 0]]

CaptureInit ==
    /\ emulator_thread = NewThread
    /\ worker = "none"
    /\ host_pcap = "absent"
    /\ classified = 0
    /\ dynamic_runs = 0

\* __init__ of the window (lines 271-282): no APK is selected, nothing runs
GuiInit ==
    /\ CaptureInit
    /\ apk_file = ""
    /\ static_workers = {}
    /\ static_of = ""
    /\ dynamic_of = ""

\* the window after select_apk has stored a file
ApkSelected ==
    /\ CaptureInit
    /\ apk_file = "a.apk"
    /\ static_workers = {}
    /\ static_of = ""
    /\ dynamic_of = ""

\* signal.emit(...), counted in the record t
Emit(t, signal) == [t EXCEPT !.emitted[signal] = @ + 1]

\* run()'s except clause (lines 98-99): the error is emitted and run() is over
RunFails(t) == [Emit(t, "error: run") EXCEPT !.pc = "finished"]

\* start_dynamic_analysis (lines 491-532) with an APK selected: a new
\* EmulatorThread is created, connected and started
start_dynamic_analysis ==
    /\ emulator_thread.pc \in {"created", "finished"}
    /\ worker \in {"none", "failed", "delivered"}
    /\ dynamic_runs < MaxDynamicRuns
    /\ dynamic_runs' = dynamic_runs + 1
    /\ apk_file # ""
    /\ emulator_thread' = [NewThread EXCEPT !.pc = "start_emulator", !.apk_file = apk_file]
    /\ worker' = "none"
    /\ classified' = 0
    /\ host_pcap' = IF host_pcap = "fresh" THEN "stale" ELSE host_pcap
    /\ UNCHANGED <<selectionVars, fusionVars, runVars, parseVars, legacyVars, doubleVars, mainVars>>

\* start_emulator (lines 120-127)
start_emulator ==
    /\ emulator_thread.pc = "start_emulator"
    /\ \E started \in BOOLEAN :
          emulator_thread' =
             [(IF started
               THEN Emit([emulator_thread EXCEPT !.process = "alive"], "emulator_started")
               ELSE Emit(emulator_thread, "error: starting emulator"))
              EXCEPT !.pc = "check_emulator_ready", !.depth = 1]
    /\ UNCHANGED <<worker, host_pcap, classified, dynamic_runs>>
    /\ UNCHANGED <<selectionVars, fusionVars, runVars, parseVars, legacyVars, doubleVars, mainVars>>

\* lines 70-73: install_apk is called whatever check_emulator_ready found
ProceedAfterCheck(outcome) == "install_apk"

\* check_emulator_ready returns (None, on every path), and so do the frames below it
CheckReturns(t, outcome) ==
    [t EXCEPT !.pc = ProceedAfterCheck(outcome), !.depth = 0, !.check_outcome = outcome]

\* lines 135 and 146-147: start_emulator failed, self.process does not exist, the
\* AttributeError is printed
CheckWithoutProcess ==
    /\ emulator_thread.pc = "check_emulator_ready"
    /\ emulator_thread.process = "unset"
    /\ emulator_thread' = CheckReturns(emulator_thread, "printed AttributeError")
    /\ UNCHANGED <<worker, host_pcap, classified, dynamic_runs>>
    /\ UNCHANGED <<selectionVars, fusionVars, runVars, parseVars, legacyVars, doubleVars, mainVars>>

\* lines 143-145: poll() is not None
CheckProcessStopped ==
    /\ emulator_thread.pc = "check_emulator_ready"
    /\ emulator_thread.process = "alive"
    /\ emulator_thread' =
          CheckReturns(Emit([emulator_thread EXCEPT !.process = "stopped"],
                            "error: emulator process has stopped"),
                       "stopped")
    /\ UNCHANGED <<worker, host_pcap, classified, dynamic_runs>>
    /\ UNCHANGED <<selectionVars, fusionVars, runVars, parseVars, legacyVars, doubleVars, mainVars>>

\* lines 135-138: the process runs and the output of adb devices holds "device"
CheckReady ==
    /\ emulator_thread.pc = "check_emulator_ready"
    /\ emulator_thread.process = "alive"
    /\ \E stdout \in AdbDevicesOutputs :
          /\ ContainsDevice(stdout)
          /\ emulator_thread' = CheckReturns(Emit(emulator_thread, "emulator_ready"), "ready")
    /\ UNCHANGED <<worker, host_pcap, classified, dynamic_runs>>
    /\ UNCHANGED <<selectionVars, fusionVars, runVars, parseVars, legacyVars, doubleVars, mainVars>>

\* lines 139-142: not ready; after the sleep the method calls itself
CheckRetries ==
    /\ emulator_thread.pc = "check_emulator_ready"
    /\ emulator_thread.process = "alive"
    /\ emulator_thread.depth < RecursionLimit
    /\ \E stdout \in AdbDevicesOutputs :
          /\ ~ContainsDevice(stdout)
          /\ emulator_thread' = [emulator_thread EXCEPT !.depth = @ + 1]
    /\ UNCHANGED <<worker, host_pcap, classified, dynamic_runs>>
    /\ UNCHANGED <<selectionVars, fusionVars, runVars, parseVars, legacyVars, doubleVars, mainVars>>

\* not ready with the stack of the interpreter full: the call raises
\* RecursionError, the except clause (lines 146-147) prints it
CheckRecursionError ==
    /\ emulator_thread.pc = "check_emulator_ready"
    /\ emulator_thread.process = "alive"
    /\ emulator_thread.depth = RecursionLimit
    /\ \E stdout \in AdbDevicesOutputs :
          /\ ~ContainsDevice(stdout)
          /\ emulator_thread' = CheckReturns(emulator_thread, "printed RecursionError")
    /\ UNCHANGED <<worker, host_pcap, classified, dynamic_runs>>
    /\ UNCHANGED <<selectionVars, fusionVars, runVars, parseVars, legacyVars, doubleVars, mainVars>>

\* subprocess.run(self.adb_command) raises: the except clause prints it
CheckAdbRaises ==
    /\ emulator_thread.pc = "check_emulator_ready"
    /\ emulator_thread.process = "alive"
    /\ emulator_thread' = CheckReturns(emulator_thread, "printed adb error")
    /\ UNCHANGED <<worker, host_pcap, classified, dynamic_runs>>
    /\ UNCHANGED <<selectionVars, fusionVars, runVars, parseVars, legacyVars, doubleVars, mainVars>>

check_emulator_ready ==
    \/ CheckWithoutProcess
    \/ CheckProcessStopped
    \/ CheckReady
    \/ CheckRetries
    \/ CheckRecursionError
    \/ CheckAdbRaises

InstallLoopRuns_OnceMore(retries) == retries <= max_retries

\* line 154: while retries < max_retries
InstallLoopRuns(retries) == retries < max_retries

\* lines 154-161: an attempt of adb install exits with 0
InstallSucceeds ==
    /\ emulator_thread.pc = "install_apk"
    /\ InstallLoopRuns(emulator_thread.retries)
    /\ emulator_thread' =
          [Emit(emulator_thread, "apk_installed")
           EXCEPT !.attempts = @ + 1, !.result_bound = TRUE, !.installed = TRUE,
                  !.pc = "installed?"]
    /\ UNCHANGED <<worker, host_pcap, classified, dynamic_runs>>
    /\ UNCHANGED <<selectionVars, fusionVars, runVars, parseVars, legacyVars, doubleVars, mainVars>>

\* lines 162-165: the attempt exits with another code
InstallFails ==
    /\ emulator_thread.pc = "install_apk"
    /\ InstallLoopRuns(emulator_thread.retries)
    /\ emulator_thread' =
          [emulator_thread EXCEPT !.attempts = @ + 1, !.result_bound = TRUE,
                                  !.retries = @ + 1]
    /\ UNCHANGED <<worker, host_pcap, classified, dynamic_runs>>
    /\ UNCHANGED <<selectionVars, fusionVars, runVars, parseVars, legacyVars, doubleVars, mainVars>>

\* lines 166-169: subprocess.run raises.  The handler formats result.stderr:
\* with `result` unbound (no earlier attempt returned) that raises
\* UnboundLocalError, which leaves install_apk and is caught by run()
InstallRaises ==
    /\ emulator_thread.pc = "install_apk"
    /\ InstallLoopRuns(emulator_thread.retries)
    /\ emulator_thread' =
          IF emulator_thread.result_bound
          THEN [emulator_thread EXCEPT !.attempts = @ + 1, !.retries = @ + 1]
          ELSE RunFails([emulator_thread EXCEPT !.attempts = @ + 1, !.retries = @ + 1])
    /\ UNCHANGED <<worker, host_pcap, classified, dynamic_runs>>
    /\ UNCHANGED <<selectionVars, fusionVars, runVars, parseVars, legacyVars, doubleVars, mainVars>>

\* line 171: the loop is left with retries = max_retries
InstallGivesUp ==
    /\ emulator_thread.pc = "install_apk"
    /\ ~InstallLoopRuns(emulator_thread.retries)
    /\ emulator_thread' =
          [Emit(emulator_thread, "error: install failed after retries") EXCEPT !.pc = "installed?"]
    /\ UNCHANGED <<worker, host_pcap, classified, dynamic_runs>>
    /\ UNCHANGED <<selectionVars, fusionVars, runVars, parseVars, legacyVars, doubleVars, mainVars>>

install_apk ==
    \/ InstallSucceeds
    \/ InstallFails
    \/ InstallRaises
    \/ InstallGivesUp

\* lines 76-88: get_package_name is called after the if statement, on both branches
AfterFailedInstall == "get_package_name"

\* lines 76-78: the APK is not installed, adb emu kill is run; the emulator may
\* or may not go down, or the command cannot be run and run() catches that
InstallFailedEmuKill ==
    /\ emulator_thread.pc = "installed?"
    /\ ~emulator_thread.installed
    /\ \E outcome \in {"killed", "not killed", "raises"} :
          emulator_thread' =
             CASE outcome = "killed" ->
                    [emulator_thread EXCEPT !.emu_kill = TRUE, !.pc = AfterFailedInstall,
                        !.process = IF @ = "alive" THEN "stopped" ELSE @]
               [] outcome = "not killed" ->
                    [emulator_thread EXCEPT !.emu_kill = TRUE, !.pc = AfterFailedInstall]
               [] outcome = "raises" -> RunFails(emulator_thread)
    /\ UNCHANGED <<worker, host_pcap, classified, dynamic_runs>>
    /\ UNCHANGED <<selectionVars, fusionVars, runVars, parseVars, legacyVars, doubleVars, mainVars>>

\* lines 79-85 and adb_root (lines 173-208): root access is granted, or an error
\* is emitted and the failure logged
adb_root ==
    /\ emulator_thread.pc = "installed?"
    /\ emulator_thread.installed
    /\ \E granted \in BOOLEAN :
          emulator_thread' =
             IF granted
             THEN [emulator_thread EXCEPT !.adb_root_shell_access = TRUE,
                                          !.pc = "get_package_name"]
             ELSE [Emit(emulator_thread, "error: adb root") EXCEPT !.pc = "get_package_name"]
    /\ UNCHANGED <<worker, host_pcap, classified, dynamic_runs>>
    /\ UNCHANGED <<selectionVars, fusionVars, runVars, parseVars, legacyVars, doubleVars, mainVars>>

\* lines 88 and 211-220: AnalyzeAPK returns (the package name may be None), or
\* raises and run() catches it
get_package_name ==
    /\ emulator_thread.pc = "get_package_name"
    /\ \E parsed \in BOOLEAN :
          emulator_thread' =
             IF parsed
             THEN [emulator_thread EXCEPT !.pc = "adb shell"]
             ELSE RunFails(emulator_thread)
    /\ UNCHANGED <<worker, host_pcap, classified, dynamic_runs>>
    /\ UNCHANGED <<selectionVars, fusionVars, runVars, parseVars, legacyVars, doubleVars, mainVars>>

\* the except clause of start_tcpdump_and_run_monkey (lines 282-283): the error
\* is emitted and the method returns; run() goes on to the pull
CaptureFails(t) == [Emit(t, "error: tcpdump and Monkey") EXCEPT !.pc = "pull"]

\* lines 233-242: the adb shell is opened and cd and pwd are written to it
OpenAdbShell ==
    /\ emulator_thread.pc = "adb shell"
    /\ \E opened \in BOOLEAN :
          emulator_thread' =
             IF opened
             THEN [emulator_thread EXCEPT !.adb_shell = "open", !.pc = "start tcpdump"]
             ELSE CaptureFails(emulator_thread)
    /\ UNCHANGED <<worker, host_pcap, classified, dynamic_runs>>
    /\ UNCHANGED <<selectionVars, fusionVars, runVars, parseVars, legacyVars, doubleVars, mainVars>>

\* lines 245-252: the tcpdump command is written to the shell
StartTcpdump ==
    /\ emulator_thread.pc = "start tcpdump"
    /\ \E written \in BOOLEAN :
          emulator_thread' =
             IF written
             THEN [Emit(emulator_thread, "log: Tcpdump started")
                   EXCEPT !.tcpdump = "running", !.pc = "run monkey"]
             ELSE CaptureFails(emulator_thread)
    /\ UNCHANGED <<worker, host_pcap, classified, dynamic_runs>>
    /\ UNCHANGED <<selectionVars, fusionVars, runVars, parseVars, legacyVars, doubleVars, mainVars>>

\* line 260: subprocess.run(monkey_command) starts Monkey, or raises
StartMonkey ==
    /\ emulator_thread.pc = "run monkey"
    /\ \E started \in BOOLEAN :
          emulator_thread' =
             IF started
             THEN [emulator_thread EXCEPT !.monkey = "running",
                                          !.monkey_during = emulator_thread.tcpdump,
                                          !.pc = "monkey runs"]
             ELSE CaptureFails(emulator_thread)
    /\ UNCHANGED <<worker, host_pcap, classified, dynamic_runs>>
    /\ UNCHANGED <<selectionVars, fusionVars, runVars, parseVars, legacyVars, doubleVars, mainVars>>

\* lines 260-265: Monkey exits; with code 0 monkey_test is emitted
MonkeyExits ==
    /\ emulator_thread.pc = "monkey runs"
    /\ \E returncode \in {0, 1} :
          emulator_thread' =
             [(IF returncode = 0 THEN Emit(emulator_thread, "monkey_test") ELSE emulator_thread)
              EXCEPT !.monkey = "finished", !.pc = "sleep"]
    /\ UNCHANGED <<worker, host_pcap, classified, dynamic_runs>>
    /\ UNCHANGED <<selectionVars, fusionVars, runVars, parseVars, legacyVars, doubleVars, mainVars>>

\* line 268: time.sleep(duration)
CaptureSleep ==
    /\ emulator_thread.pc = "sleep"
    /\ emulator_thread' = [emulator_thread EXCEPT !.slept = TRUE, !.pc = "stop tcpdump"]
    /\ UNCHANGED <<worker, host_pcap, classified, dynamic_runs>>
    /\ UNCHANGED <<selectionVars, fusionVars, runVars, parseVars, legacyVars, doubleVars, mainVars>>

\* lines 271-280: pkill tcpdump and exit are written to the shell
StopTcpdump ==
    /\ emulator_thread.pc = "stop tcpdump"
    /\ \E outcome \in {"written", "pkill raises", "exit raises"} :
          LET stopped == [Emit(emulator_thread, "log: Tcpdump stopped")
                          EXCEPT !.tcpdump = "stopped",
                                 !.stopped_after =
                                    IF emulator_thread.monkey = "finished" /\ emulator_thread.slept
                                    THEN "monkey and sleep" ELSE "early"]
          IN  emulator_thread' =
                 CASE outcome = "written" -> [stopped EXCEPT !.adb_shell = "exited", !.pc = "pull"]
                   [] outcome = "pkill raises" -> CaptureFails(emulator_thread)
                   [] outcome = "exit raises" -> CaptureFails(stopped)
    /\ UNCHANGED <<worker, host_pcap, classified, dynamic_runs>>
    /\ UNCHANGED <<selectionVars, fusionVars, runVars, parseVars, legacyVars, doubleVars, mainVars>>

start_tcpdump_and_run_monkey ==
    \/ OpenAdbShell
    \/ StartTcpdump
    \/ StartMonkey
    \/ MonkeyExits
    \/ CaptureSleep
    \/ StopTcpdump

\* lines 291-306: adb pull; the outcome is logged, nothing is raised
pull_logs_from_emu ==
    /\ emulator_thread.pc = "pull"
    /\ \E outcome \in {"ok", "failed"} :
          /\ emulator_thread' =
                [Emit(emulator_thread, IF outcome = "ok" THEN "log: pulled the file"
                                                         ELSE "log: failed to pull the file")
                 EXCEPT !.pull = outcome, !.pull_during = emulator_thread.tcpdump,
                        !.pc = "emit"]
          /\ host_pcap' = IF outcome = "ok" THEN "fresh" ELSE host_pcap
    /\ UNCHANGED <<worker, classified, dynamic_runs>>
    /\ UNCHANGED <<selectionVars, fusionVars, runVars, parseVars, legacyVars, doubleVars, mainVars>>

\* line 96, and the slot process_logs (lines 564-571) it is connected to: the
\* PcapDataProcessor is created and started
EmitPcapLoaded ==
    /\ emulator_thread.pc = "emit"
    /\ emulator_thread' = [Emit(emulator_thread, "pcap_loaded_to_host") EXCEPT !.pc = "finished"]
    /\ worker' = "started"
    /\ UNCHANGED <<host_pcap, classified, dynamic_runs>>
    /\ UNCHANGED <<selectionVars, fusionVars, runVars, parseVars, legacyVars, doubleVars, mainVars>>

\* EmulatorThread.run (lines 64-99)
EmulatorThread_run ==
    \/ start_emulator
    \/ check_emulator_ready
    \/ install_apk
    \/ InstallFailedEmuKill
    \/ adb_root
    \/ get_package_name
    \/ start_tcpdump_and_run_monkey
    \/ pull_logs_from_emu
    \/ EmitPcapLoaded

\* tshark reads a file that is there, and may fail on it; it fails without one
TsharkReads(file) == file # "absent"

\* PcapDataProcessor.run (lines 25-37): tshark exits with 0 and the log lines
\* are emitted
WorkerEmits ==
    /\ worker = "started"
    /\ TsharkReads(host_pcap)
    /\ worker' = "emitted"
    /\ UNCHANGED <<emulator_thread, host_pcap, classified, dynamic_runs>>
    /\ UNCHANGED <<selectionVars, fusionVars, runVars, parseVars, legacyVars, doubleVars, mainVars>>

\* lines 36-37 and 62-63: tshark cannot be run or exits with another code; the
\* exception is printed and nothing is emitted
WorkerFails ==
    /\ worker = "started"
    /\ worker' = "failed"
    /\ UNCHANGED <<emulator_thread, host_pcap, classified, dynamic_runs>>
    /\ UNCHANGED <<selectionVars, fusionVars, runVars, parseVars, legacyVars, doubleVars, mainVars>>

PcapDataProcessor_run == WorkerEmits \/ WorkerFails

\* what classify_apk_network_traffic returns (dynamic_analysis_and_XAI.py lines
\* 61-91): a class and a confidence, or (None, None, None)
ClassifierOutputs == {<<"ok", 0, Scale>>, <<"ok", 1, Scale \div 2>>, <<"none", 0, 0>>}

\* the slot dynamic_extracted_features_display (lines 574-580) and
\* dynamic_clasification_and_XAI (lines 583-603)
dynamic_clasification_and_XAI ==
    /\ worker = "emitted"
    /\ worker' = "delivered"
    /\ classified' = classified + 1
    /\ \E out \in ClassifierOutputs :
          /\ dyn_state' = out[1]
          /\ dynamic_classification' = out[2]
          /\ dynamic_confidence_score' = out[3]
    /\ UNCHANGED <<has_static, static_prediction, static_predict_probability,
                   has_outcome, P_combined, certainty_score, static_classification,
                   hybrid_class, P_local, log_msg, calls>>
    /\ dynamic_of' = emulator_thread.apk_file
    /\ UNCHANGED <<emulator_thread, host_pcap, dynamic_runs>>
    /\ UNCHANGED <<apk_file, static_workers, static_of>>
    /\ UNCHANGED <<runVars, parseVars, legacyVars, doubleVars, mainVars>>

\* the dynamic analysis of the GUI, from the click to the classification
dynamic_analysis ==
    \/ start_dynamic_analysis
    \/ EmulatorThread_run
    \/ PcapDataProcessor_run
    \/ dynamic_clasification_and_XAI

\* select_apk (lines 305-322): the file dialog returns a path, or "" when it
\* is cancelled; the gauges are reset, the stored results are not touched
select_apk ==
    /\ \E chosen \in APKs \cup {""} : apk_file' = chosen
    /\ UNCHANGED <<static_workers, static_of, dynamic_of>>
    /\ UNCHANGED <<captureVars, fusionVars, runVars, parseVars, legacyVars, doubleVars, mainVars>>

\* analyze_apk (lines 329-359): a FeatureExtractionWorker is started for the
\* selected APK
analyze_apk ==
    /\ apk_file # ""
    /\ static_workers' = static_workers \cup {apk_file}
    /\ UNCHANGED <<apk_file, static_of, dynamic_of>>
    /\ UNCHANGED <<captureVars, fusionVars, runVars, parseVars, legacyVars, doubleVars, mainVars>>

\* what the static model returns: the class and the probability of malicious
StaticOutputs == {<<1, (3 * Scale) \div 4>>, <<0, Scale \div 4>>}

\* feature_extraction_finished (lines 364-378) and run_static_analysis (lines
\* 390-436): the worker of an APK is done and its prediction is stored
feature_extraction_finished ==
    /\ \E apk \in static_workers :
          /\ static_workers' = static_workers \ {apk}
          /\ static_of' = apk
    /\ \E out \in StaticOutputs :
          /\ has_static' = TRUE
          /\ static_prediction' = out[1]
          /\ static_predict_probability' = out[2]
    /\ UNCHANGED <<dyn_state, dynamic_classification, dynamic_confidence_score,
                   has_outcome, P_combined, certainty_score, static_classification,
                   hybrid_class, P_local, log_msg, calls>>
    /\ UNCHANGED <<apk_file, dynamic_of>>
    /\ UNCHANGED <<captureVars, runVars, parseVars, legacyVars, doubleVars, mainVars>>

\* feature_extraction_error (lines 380-383): the worker failed, nothing is stored
feature_extraction_error ==
    /\ \E apk \in static_workers : static_workers' = static_workers \ {apk}
    /\ UNCHANGED <<apk_file, static_of, dynamic_of>>
    /\ UNCHANGED <<captureVars, fusionVars, runVars, parseVars, legacyVars, doubleVars, mainVars>>

\* no thread is running: the user waits for an analysis to end before the
\* next click
Quiet ==
    /\ emulator_thread.pc \in {"created", "finished"}
    /\ worker \in {"none", "failed", "delivered"}
    /\ static_workers = {}

\* a session of the GUI in which the user clicks only while no thread runs:
\* the buttons and the completions of the threads
session ==
    \/ Quiet /\ select_apk
    \/ Quiet /\ analyze_apk
    \/ feature_extraction_finished
    \/ feature_extraction_error
    \/ start_dynamic_analysis
    \/ start_emulator
    \/ CheckReady
    \/ InstallSucceeds
    \/ adb_root
    \/ get_package_name
    \/ start_tcpdump_and_run_monkey
    \/ pull_logs_from_emu
    \/ EmitPcapLoaded
    \/ WorkerEmits
    \/ dynamic_clasification_and_XAI
    \/ Quiet /\ calculate_overall_score

\* ---- the fusion in the code's arithmetic: IEEE-754 binary64 ----
\* A double d with d = 0 or 2^-7 <= d < 2 is the integer d * 2^UnitBits, written
\* as DoubleLimbs limbs of LimbBits bits, the least significant first; the
\* operations compute the exact result and round it to 53 significant bits,
\* ties to even, as the float operations of CPython do.

LimbBits == 13

Base == 2 ^ LimbBits

UnitBits == 60

DoubleLimbs == 5

SignificandBits == 53

RECURSIVE Propagate(_, _)
\* the limbs of a number given by limbs that are too large or negative
Propagate(x, carry) ==
    IF x = <<>> THEN <<>>
    ELSE LET t == Head(x) + carry
         IN  <<t % Base>> \o Propagate(Tail(x), t \div Base)

BigAdd(a, b) == Propagate([i \in 1 .. Len(a) |-> a[i] + b[i]], 0)

BigSub(a, b) == Propagate([i \in 1 .. Len(a) |-> a[i] - b[i]], 0)

RECURSIVE Convolve(_, _, _, _)
\* the sum of a[i] * b[k + 1 - i] over i .. Len(a)
Convolve(a, b, k, i) ==
    IF i > Len(a) THEN 0
    ELSE (IF k + 1 - i \in 1 .. Len(b) THEN a[i] * b[k + 1 - i] ELSE 0)
         + Convolve(a, b, k, i + 1)

\* the exact product, Len(a) + Len(b) limbs
BigMul(a, b) == Propagate([k \in 1 .. Len(a) + Len(b) |-> Convolve(a, b, k, 1)], 0)

RECURSIVE BigLess(_, _)
\* a < b, for numbers of the same number of limbs
BigLess(a, b) ==
    IF a = <<>> THEN FALSE
    ELSE LET n == Len(a)
         IN  IF a[n] # b[n] THEN a[n] < b[n]
             ELSE BigLess(SubSeq(a, 1, n - 1), SubSeq(b, 1, n - 1))

IsZero(x) == \A i \in 1 .. Len(x) : x[i] = 0

\* bit k of x, bit 0 the least significant
Bit(x, k) == (x[(k \div LimbBits) + 1] \div (2 ^ (k % LimbBits))) % 2

BitLength(x) ==
    IF IsZero(x) THEN 0
    ELSE LET top == CHOOSE i \in 1 .. Len(x) :
                        x[i] # 0 /\ \A j \in i + 1 .. Len(x) : x[j] = 0
             len == CHOOSE b \in 1 .. LimbBits : 2 ^ b > x[top] /\ 2 ^ (b - 1) <= x[top]
         IN  (top - 1) * LimbBits + len

\* 2^k in n limbs
PowerOfTwo(k, n) == [i \in 1 .. n |-> IF i = (k \div LimbBits) + 1 THEN 2 ^ (k % LimbBits) ELSE 0]

\* x with its bits below bit k cleared
ClearBelow(x, k) ==
    [i \in 1 .. Len(x) |->
        IF i * LimbBits <= k THEN 0
        ELSE IF (i - 1) * LimbBits >= k THEN x[i]
        ELSE LET s == k - (i - 1) * LimbBits
             IN  (x[i] \div (2 ^ s)) * (2 ^ s)]

\* round to nearest, ties to even: up when the dropped part is more than half
\* of the last kept place, or exactly half and the last kept bit is odd
RoundTiesToEven(lsb, round_bit, sticky) == round_bit = 1 /\ (sticky \/ lsb = 1)

\* the nearest number with SignificandBits significant bits
RoundToDouble(x) ==
    LET drop == BitLength(x) - SignificandBits
    IN  IF drop <= 0 THEN x
        ELSE LET sticky == \E k \in 0 .. drop - 2 : Bit(x, k) = 1
                 kept   == ClearBelow(x, drop)
             IN  IF RoundTiesToEven(Bit(x, drop), Bit(x, drop - 1), sticky)
                 THEN BigAdd(kept, PowerOfTwo(drop, Len(x)))
                 ELSE kept

\* x / 2^UnitBits in DoubleLimbs limbs, for an x whose low UnitBits bits are 0
Rescale(x) ==
    LET whole == UnitBits \div LimbBits
        part  == UnitBits % LimbBits
    IN  [i \in 1 .. DoubleLimbs |->
            (x[i + whole] \div (2 ^ part))
            + (IF i + whole + 1 <= Len(x)
               THEN (x[i + whole + 1] % (2 ^ part)) * (2 ^ (LimbBits - part))
               ELSE 0)]

\* a * b of two floats
DoubleMul(a, b) == Rescale(RoundToDouble(BigMul(a, b)))

\* a + b of two floats
DoubleAdd(a, b) == RoundToDouble(BigAdd(a, b))

\* a - b of two floats, a >= b
DoubleSub(a, b) == RoundToDouble(BigSub(a, b))


\* lines 637-638: the float literals 0.60 and 0.40
wd_double == <<6528, 3276, 1638, 4915, 153>>

ws_double == <<1664, 4915, 6553, 3276, 102>>

\* line 635: the 1 of `1 - P_dynamic`
DoubleOne == <<0, 0, 0, 0, 256>>

\* line 648: the 0.5 of `P_combined >= 0.5`
DoubleHalf == <<0, 0, 0, 0, 128>>

\* predict_proba[0][1] of the static model (line 628)
DoubleStatics ==
    {
     <<0, 0, 0, 0, 0>>,   \* 0.0
     <<0, 0, 0, 0, 64>>,   \* 0.25
     <<0, 0, 0, 0, 128>>,   \* 0.5
     <<0, 0, 0, 0, 192>>,   \* 0.75
     <<0, 0, 0, 0, 256>>    \* 1.0
    }

\* the "Predicted Probability" the classifier returned (line 630)
DoubleConfidences ==
    {
     <<0, 0, 0, 0, 0>>,   \* 0.0
     <<6560, 3276, 1638, 4915, 25>>,   \* 0.1
     <<2592, 5461, 2730, 5461, 42>>,   \* 0.16666666666666655
     <<2624, 5461, 2730, 5461, 42>>,   \* 0.16666666666666657
     <<2688, 5461, 2730, 5461, 42>>,   \* 0.16666666666666663
     <<2720, 5461, 2730, 5461, 42>>,   \* 0.16666666666666666
     <<2752, 5461, 2730, 5461, 42>>,   \* 0.16666666666666669
     <<0, 0, 0, 0, 128>>,   \* 0.5
     <<5376, 2730, 5461, 2730, 213>>,   \* 0.8333333333333333
     <<5504, 2730, 5461, 2730, 213>>,   \* 0.8333333333333334
     <<5632, 2730, 5461, 2730, 213>>,   \* 0.8333333333333335
     <<1664, 4915, 6553, 3276, 230>>,   \* 0.9
     <<0, 0, 0, 0, 256>>    \* 1.0
    }

\* lines 634-635
P_dynamic_double(d, confidence) ==
    IF d = 0 THEN DoubleSub(DoubleOne, confidence) ELSE confidence

\* line 641
CombineDoubles(pd, ps) == DoubleAdd(DoubleMul(wd_double, pd), DoubleMul(ws_double, ps))

OverallOfDouble_Strict(pcomb) == IF BigLess(DoubleHalf, pcomb) THEN 1 ELSE 0

\* line 648
OverallOfDouble(pcomb) == IF BigLess(pcomb, DoubleHalf) THEN 0 ELSE 1

\* both results are stored and 'Hybrid Analysis' has not been clicked
DoubleInit ==
    /\ double_static \in DoubleStatics
    /\ double_class \in Classes
    /\ double_confidence \in DoubleConfidences
    /\ double_P_dynamic = <<>>
    /\ double_P_combined = <<>>
    /\ double_overall = -1

\* lines 623-648 of calculate_overall_score, in the arithmetic of the code
calculate_in_doubles ==
    /\ double_overall = -1
    /\ LET pd    == P_dynamic_double(double_class, double_confidence)
           pcomb == CombineDoubles(pd, double_static)
       IN  /\ double_P_dynamic' = pd
           /\ double_P_combined' = pcomb
           /\ double_overall' = OverallOfDouble(pcomb)
    /\ UNCHANGED <<double_static, double_class, double_confidence>>
    /\ UNCHANGED <<fusionVars, runVars, parseVars, legacyVars, guiVars, mainVars>>

\* ---- __main__ and install_app of the v6 script (lines 221-248, 683-708) ----

\* sys.exit(1) in __main__ or in install_app
MainExit(reason) ==
    /\ main_pc' = "exited"
    /\ main_exit' = reason

\* what __main__ starts from: the device has the package of the APK or not
MainInit ==
    /\ main_pc = "select_apk_file"
    /\ apk_path = ""
    /\ package_name = ""
    /\ app_on_device \in {"absent", "previous"}
    /\ install_issued_over = "none"
    /\ main_exit = ""

\* lines 690-693: the file dialog returns a path, or "" when it is cancelled
main_select_apk_file ==
    /\ main_pc = "select_apk_file"
    /\ \E chosen \in {"", "app.apk"} :
          /\ apk_path' = chosen
          /\ IF chosen = ""
             THEN MainExit("no_apk")
             ELSE main_pc' = "get_package_name" /\ UNCHANGED main_exit
    /\ UNCHANGED <<package_name, app_on_device, install_issued_over>>
    /\ UNCHANGED <<fusionVars, runVars, parseVars, legacyVars, guiVars, doubleVars>>

\* lines 696-702; get_package_name (lines 208-219) returns None when
\* AnalyzeAPK raises or the manifest names no package
main_get_package_name ==
    /\ main_pc = "get_package_name"
    /\ \E name \in {"", "com.app"} :
          IF name = ""
          THEN MainExit("no_package_name") /\ UNCHANGED package_name
          ELSE /\ package_name' = name
               /\ main_pc' = "install_app"
               /\ UNCHANGED main_exit
    /\ UNCHANGED <<apk_path, app_on_device, install_issued_over>>
    /\ UNCHANGED <<fusionVars, runVars, parseVars, legacyVars, guiVars, doubleVars>>

\* lines 226-228: os.path.isfile(apk_path)
InstallAppChecksFile ==
    /\ main_pc = "install_app"
    /\ \E is_file \in BOOLEAN :
          IF is_file
          THEN main_pc' = "pm_list" /\ UNCHANGED main_exit
          ELSE MainExit("apk_not_found")
    /\ UNCHANGED <<apk_path, package_name, app_on_device, install_issued_over>>
    /\ UNCHANGED <<fusionVars, runVars, parseVars, legacyVars, guiVars, doubleVars>>

\* what `adb shell pm list packages` can write to stdout, as far as line 233
\* reads it: TRUE when the package name is a substring of it. The command is
\* run without check=True: when it fails the output is empty and FALSE is
\* read although the package is installed; the name of another package can
\* contain the name although the package is not installed
PmListOutputs(on_device) == BOOLEAN

\* lines 232-233
InstallAppQueriesPackages ==
    /\ main_pc = "pm_list"
    /\ \E listed \in PmListOutputs(app_on_device) :
          main_pc' = IF listed THEN "uninstall" ELSE "install"
    /\ UNCHANGED <<apk_path, package_name, app_on_device, install_issued_over, main_exit>>
    /\ UNCHANGED <<fusionVars, runVars, parseVars, legacyVars, guiVars, doubleVars>>

\* lines 234-239: adb uninstall with check=True; it fails when the package is
\* not on the device, and may fail when it is
InstallAppUninstalls ==
    /\ main_pc = "uninstall"
    /\ \E removed \in (IF app_on_device = "absent" THEN {FALSE} ELSE BOOLEAN) :
          IF removed
          THEN /\ app_on_device' = "absent"
               /\ main_pc' = "install"
               /\ UNCHANGED main_exit
          ELSE /\ MainExit("uninstall_failed")
               /\ UNCHANGED app_on_device
    /\ UNCHANGED <<apk_path, package_name, install_issued_over>>
    /\ UNCHANGED <<fusionVars, runVars, parseVars, legacyVars, guiVars, doubleVars>>

\* lines 242-248: adb install with check=True
InstallAppInstalls ==
    /\ main_pc = "install"
    /\ install_issued_over' = app_on_device
    /\ \E done \in BOOLEAN :
          IF done
          THEN /\ app_on_device' = "new"
               /\ main_pc' = "run_analysis"
               /\ UNCHANGED main_exit
          ELSE /\ MainExit("install_failed")
               /\ UNCHANGED app_on_device
    /\ UNCHANGED <<apk_path, package_name>>
    /\ UNCHANGED <<fusionVars, runVars, parseVars, legacyVars, guiVars, doubleVars>>

install_app ==
    \/ InstallAppChecksFile
    \/ InstallAppQueriesPackages
    \/ InstallAppUninstalls
    \/ InstallAppInstalls

\* line 708: framework.run_analysis(), which starts with the dependency gate
\* (line 613)
MainRunsAnalysis ==
    /\ main_pc = "run_analysis"
    /\ perform_checks

main ==
    \/ main_select_apk_file
    \/ main_get_package_name
    \/ install_app
    \/ MainRunsAnalysis

vars == <<fusionVars, runVars, parseVars, otherVars>>

\* the first version of the script is not run
LegacyIdle ==
    /\ legacy_main = "idle"
    /\ legacy_step = "none"
    /\ legacy_process = [st \in StageSet |-> "none"]
    /\ outfile = [st \in StageSet |-> "none"]
    /\ elapsed = 0
    /\ pending = FALSE
    /\ device_kill = [st \in StageSet |-> "none"]
    /\ pulled = [st \in StageSet |-> "none"]
    /\ tcpdump_pushed = FALSE

\* no dynamic analysis has been started in the GUI
GuiIdle == GuiInit

\* none of the other programs runs
\* no fusion in doubles is under way: fixed inputs, nothing computed
DoubleIdle ==
    /\ double_static = DoubleHalf
    /\ double_class = 1
    /\ double_confidence = DoubleHalf
    /\ double_P_dynamic = <<>>
    /\ double_P_combined = <<>>
    /\ double_overall = -1

\* __main__ has installed the app and called run_analysis
MainIdle ==
    /\ main_pc = "run_analysis"
    /\ apk_path = "app.apk"
    /\ package_name = "com.app"
    /\ app_on_device = "new"
    /\ install_issued_over = "absent"
    /\ main_exit = ""

OtherIdle == LegacyIdle /\ GuiIdle /\ DoubleIdle /\ MainIdle

\* no parse method runs as a thread
ParseIdle ==
    /\ parser = [st \in StageSet |-> "idle"]
    /\ parser_counts = [st \in StageSet |-> <<>>]

\* no static and no dynamic result: the GUI is not part of the run
FusionIdle ==
    /\ FusionInit
    /\ ~has_static
    /\ dyn_state = "absent"

\* a run that has not started: the run is not part of the GUI
RunIdle ==
    /\ RunInit
    /\ host_tools = REQUIRED_HOST_TOOLS
    /\ dev_libc
    /\ dev_path_tools = Range(REQUIRED_DEVICE_TOOLS)

\* the states of the device the runs start from: every tool on the PATH of the
\* device, tcpdump missing, or inotifywait and tcpdump missing; with and
\* without the shared library
InitialDeviceTools ==
    {Range(REQUIRED_DEVICE_TOOLS), Range(REQUIRED_DEVICE_TOOLS) \ {"tcpdump"}, {"strace"}}

\* the GUI with its stored results, beside a run that never starts
InitFusion == FusionInit /\ RunIdle /\ ParseIdle /\ OtherIdle

\* a run from its start, beside a GUI that holds no result
InitRun ==
    RunInit /\ FusionIdle /\ ParseIdle /\ OtherIdle /\ dev_path_tools \in InitialDeviceTools

\* the stages are over; the parse methods of those that captured start together
InitParse ==
    /\ FusionIdle
    /\ OtherIdle
    /\ parser \in {f \in [StageSet -> {"start", "idle"}] :
                     Cardinality({st \in StageSet : f[st] = "start"}) = MaxOverlap}
    /\ parser_counts = [st \in StageSet |-> <<>>]
    /\ pc = "parsing"
    /\ exit_reason = ""
    /\ host_tools = REQUIRED_HOST_TOOLS
    /\ device_seen = "connected"
    /\ precondition_checks = 2
    /\ dev_libc = TRUE
    /\ dev_path_tools = Range(REQUIRED_DEVICE_TOOLS)
    /\ installed = {}
    /\ gate_reads = {"libc"} \cup Range(REQUIRED_DEVICE_TOOLS)
    /\ push_issued = {}
    /\ attempted = {}
    /\ todo = <<>>
    /\ install_caller = "none"
    /\ stage = "none"
    /\ step = "none"
    /\ slept = Duration
    /\ raised = FALSE
    /\ proc = [st \in StageSet |-> IF parser[st] = "start" THEN "exited" ELSE "none"]
    /\ sink = [st \in StageSet |-> IF HasSink(st) THEN "closed" ELSE "none"]
    /\ stop_calls = [st \in StageSet |-> IF parser[st] = "start" THEN 1 ELSE 0]
    /\ remote_kill = "ok"
    /\ counts = <<>>
    /\ dynamic_features = EmptyFeatures
    /\ lock = "none"
    /\ saved_doc = EmptyFeatures
    /\ save_count = 0
    /\ ended = {}
    /\ degraded = {}
    /\ stage_log = {}
    /\ phases = <<"gate", "app", "log", "syscall", "filesystem", "network">>

SpecFusion == InitFusion /\ [][calculate_overall_score]_vars

SpecRun == InitRun /\ [][run_analysis]_vars

\* the run is one thread that goes on whenever it has a step to take
SpecRunLive == SpecRun /\ WF_vars(run_analysis)

SpecParse == InitParse /\ [][parse_threads]_vars

\* the gate alone, run again and again, from every state of host and device
InitGate == RunInit /\ FusionIdle /\ ParseIdle /\ OtherIdle

SpecGate == InitGate /\ [][perform_checks \/ perform_checks_again]_vars

\* the first version of the script from its start
InitLegacy == LegacyInit /\ FusionIdle /\ RunIdle /\ ParseIdle /\ GuiIdle /\ DoubleIdle /\ MainIdle

SpecLegacy == InitLegacy /\ [][legacy_script]_vars

\* the GUI with an APK selected and no analysis done
InitGui == ApkSelected /\ FusionIdle /\ RunIdle /\ ParseIdle /\ LegacyIdle /\ DoubleIdle /\ MainIdle

SpecGui == InitGui /\ [][dynamic_analysis]_vars

InitSession == GuiInit /\ FusionIdle /\ RunIdle /\ ParseIdle /\ LegacyIdle /\ DoubleIdle /\ MainIdle

SpecSession == InitSession /\ [][session]_vars

InitDouble ==
    DoubleInit /\ FusionIdle /\ RunIdle /\ ParseIdle /\ LegacyIdle /\ GuiIdle /\ MainIdle

SpecDouble == InitDouble /\ [][calculate_in_doubles]_vars

InitMain ==
    /\ MainInit /\ RunInit /\ dev_path_tools \in InitialDeviceTools
    /\ FusionIdle /\ ParseIdle /\ LegacyIdle /\ GuiIdle /\ DoubleIdle

SpecMain == InitMain /\ [][main]_vars

\* ------------------------------------------------------- claims: fusion

\* the probability of malicious the fusion is to use for the dynamic result
ExpectedPdynamic ==
    IF dynamic_classification = 1 THEN dynamic_confidence_score
                                  ELSE Scale - dynamic_confidence_score

\* 0.60*Pdynamic + 0.40*Pstatic, in units of 1/(10*Scale)
ExpectedPcombined == 6 * ExpectedPdynamic + 4 * static_predict_probability

BothBenign == static_prediction = 0 /\ dynamic_classification = 0

C2_Threshold ==
    has_outcome =>
        /\ hybrid_class \in {"Malicious", "Benign"}
        /\ hybrid_class = "Malicious" <=> ExpectedPcombined >= 5 * Scale
        /\ hybrid_class = "Benign" <=> ExpectedPcombined < 5 * Scale

C2_Witness ==
    /\ has_outcome
    /\ ExpectedPcombined = 5 * Scale
    /\ hybrid_class = "Malicious"

\* C3: the reported combined probability is 1 - Pcombined when both
\* classifications are benign and Pcombined in every other case; the class and
\* the certainty are those of the Pcombined before the adjustment; static benign
\* with tail 0.30 and dynamic (benign, 0.65) reports 0.67 and benign.
C3_BenignAdjustment ==
    has_outcome =>
        /\ BothBenign => P_combined = 10 * Scale - ExpectedPcombined
        /\ ~BothBenign => P_combined = ExpectedPcombined
        /\ (P_combined # ExpectedPcombined) => BothBenign
        /\ hybrid_class = (IF ExpectedPcombined >= 5 * Scale THEN "Malicious" ELSE "Benign")
        /\ certainty_score = Abs(ExpectedPcombined - 5 * Scale) * 100
        /\ ( /\ static_prediction = 0
             /\ 10 * static_predict_probability = 3 * Scale
             /\ dynamic_classification = 0
             /\ 100 * dynamic_confidence_score = 65 * Scale )
           => /\ 100 * P_combined = 67 * (10 * Scale)
              /\ hybrid_class = "Benign"

C3_Witness ==
    /\ has_outcome
    /\ BothBenign
    /\ 10 * static_predict_probability = 3 * Scale
    /\ 100 * dynamic_confidence_score = 65 * Scale
    /\ 100 * P_combined = 67 * Den
    /\ 100 * P_local = 33 * Den
    /\ hybrid_class = "Benign"

\* C4: for classifications in {benign, malicious} and confidences in [0,1], the
\* combined probability is in [0,1] before and after the both-benign adjustment
\* and the certainty score is in [0,100].
C4_Ranges ==
    has_outcome =>
        /\ 0 <= P_local /\ P_local <= Den
        /\ 0 <= P_combined /\ P_combined <= Den
        /\ 0 <= certainty_score /\ certainty_score <= 100 * Den

C4_Witness ==
    /\ has_outcome
    /\ BothBenign
    /\ P_local = 0
    /\ P_combined = Den
    /\ certainty_score = 50 * Den

\* C5: a call of calculate_overall_score leaves the stored static and dynamic
\* results as they were, and a call made when an outcome of the same stored
\* results is already there leaves the combined probability, the certainty score
\* and the final classification as they were.
C5_Idempotent ==
    [][ /\ has_static' = has_static
        /\ static_prediction' = static_prediction
        /\ static_predict_probability' = static_predict_probability
        /\ dyn_state' = dyn_state
        /\ dynamic_classification' = dynamic_classification
        /\ dynamic_confidence_score' = dynamic_confidence_score
        /\ has_outcome =>
              /\ has_outcome'
              /\ P_combined' = P_combined
              /\ certainty_score' = certainty_score
              /\ hybrid_class' = hybrid_class ]_vars

C5_Witness ==
    /\ has_outcome
    /\ calls >= 2
    /\ dynamic_classification = 0
    /\ hybrid_class = "Malicious"

\* C18: the fusion is computed only when the static and the dynamic result are
\* both there: a call made while one of them is missing appends the message
\* that both analyses must be completed, and leaves the stored combined
\* probability, certainty score, classes and hybrid class as they were; an
\* outcome is stored only with both results present.
C18_FusionNeedsBothResults ==
    /\ [](has_outcome => (has_static /\ dyn_state = "ok"))
    /\ [](~has_outcome => (P_combined = 0 /\ certainty_score = 0 /\ hybrid_class = ""))
    /\ [][(~has_static \/ dyn_state = "absent") =>
             /\ log_msg' = "Both static and dynamic analyses must be completed"
             /\ UNCHANGED <<has_outcome, P_combined, certainty_score, hybrid_class,
                            static_classification, dynamic_classification, P_local>>]_vars

C18_Witness ==
    /\ calls >= 2
    /\ has_static /\ dyn_state = "absent"
    /\ static_prediction = 1 /\ static_predict_probability = Scale
    /\ log_msg = "Both static and dynamic analyses must be completed"
    /\ ~has_outcome /\ P_combined = 0 /\ certainty_score = 0 /\ hybrid_class = ""

\* ---------------------------------------------------------- claims: run

AllKeys == UNION {Range(StageKeys(st)) : st \in StageSet}

\* the stages that captured, were stopped and ended with nothing failing
Completed == {st \in ended : st \notin degraded /\ proc[st] = "exited"}

Alive == {st \in StageSet : proc[st] \in {"running", "signalled"}}

IsPrefix(s, full) == Len(s) <= Len(full) /\ \A i \in 1 .. Len(s) : s[i] = full[i]

\* C6: once the stages are over the aggregate holds exactly the keys of the
\* stages that completed, and after a run in which all four stages captured and
\* stopped with no failure it holds the ten keys of the four stages.
C6_AggregateHoldsCompletedStagesKeys ==
    /\ pc \in {"save", "done"} =>
          DOMAIN dynamic_features = UNION {Range(StageKeys(st)) : st \in Completed}
    /\ (pc = "done" /\ Completed = StageSet) =>
          DOMAIN dynamic_features =
              {"log_errors", "log_warnings", "system_calls_count", "file_access_calls",
               "network_calls", "files_created", "files_deleted", "network_connections",
               "data_sent_bytes", "data_received_bytes"}

\* C7: a stage that started its capture process calls stop exactly once, after
\* the sleep, whether the sleep returned or raised, and its run() does not end
\* while the process it started has not been stopped.
C7_StopExactlyOnce ==
    \A st \in StageSet :
        /\ stop_calls[st] <= 1
        /\ stop_calls[st] = 1 => proc[st] # "none"
        /\ (stage = st /\ step = "sleep") => (stop_calls[st] = 0 /\ proc[st] = "running")
        /\ (stage = st /\ stop_calls[st] = 1) => (slept = Duration \/ raised)
        /\ (st \in ended /\ proc[st] # "none") =>
              (stop_calls[st] = 1 /\ proc[st] = "exited")

C7_Witness ==
    /\ pc = "crashed"
    /\ raised
    /\ slept < Duration
    /\ ended = {"log", "syscall"}
    /\ proc["log"] = "exited" /\ stop_calls["log"] = 1
    /\ proc["syscall"] = "exited" /\ stop_calls["syscall"] = 1

\* C8: once a stage's run() has ended, by whatever path, no capture process the
\* stage started is still running and no output file it opened is still open.
C8_NoOrphanNoOpenFile ==
    \A st \in ended :
        /\ proc[st] \notin {"running", "signalled"}
        /\ sink[st] # "open"

\* C9: the run goes through gate, app check and launch, log, syscall,
\* filesystem and network stage, then the save, in that order; a capture process
\* is started only when every earlier stage has ended, and at most one capture
\* process is alive.
C9_FixedOrderOneAtATime ==
    /\ IsPrefix(phases, <<"gate", "app", "log", "syscall", "filesystem", "network", "save">>)
    /\ pc = "stage" => phases[Len(phases)] = stage
    /\ pc \in {"save", "done"} => (phases[Len(phases)] = "save" /\ ended = StageSet)
    /\ save_count > 0 => pc = "done"
    /\ Cardinality(Alive) <= 1
    /\ \A st \in Alive : stage = st
    /\ \A st \in StageSet :
          proc[st] # "none" =>
              \A i \in 1 .. (StageIndex(st) - 1) :
                  Stages[i] \in ended /\ proc[Stages[i]] \in {"none", "exited"}

C9_Witness ==
    /\ pc = "done"
    /\ save_count = 1
    /\ phases = <<"gate", "app", "log", "syscall", "filesystem", "network", "save">>
    /\ \A st \in StageSet : proc[st] = "exited"

\* C10: with a required host tool missing or no device connected the gate ends
\* the run at once, after one check, with no device-side check and no push made,
\* no stage started and nothing saved; the device is looked for only when all
\* host tools were found.
C10_GateAbortsEarly ==
    /\ (host_tools # REQUIRED_HOST_TOOLS /\ pc # "gate_host") =>
          (pc = "exited" /\ exit_reason = "host_tools" /\ precondition_checks = 1)
    /\ device_seen = "absent" =>
          (pc = "exited" /\ exit_reason = "no_device" /\ precondition_checks = 2)
    /\ device_seen # "unchecked" => host_tools = REQUIRED_HOST_TOOLS
    /\ exit_reason \in {"host_tools", "no_device"} =>
          /\ pc = "exited"
          /\ gate_reads = {} /\ push_issued = {} /\ attempted = {} /\ installed = {}
          /\ phases = <<"gate">>
          /\ stage = "none"
          /\ \A st \in StageSet : proc[st] = "none" /\ sink[st] = "none" /\ stop_calls[st] = 0
          /\ dynamic_features = EmptyFeatures
          /\ save_count = 0 /\ saved_doc = EmptyFeatures

C10_Witness ==
    /\ pc = "exited"
    /\ exit_reason = "no_device"
    /\ device_seen = "absent"
    /\ ~dev_libc
    /\ host_tools = REQUIRED_HOST_TOOLS

OtherKeys(st) == UNION {Range(StageKeys(o)) : o \in StageSet \ {st}}

\* C11: when the pid of the app is not resolved the syscall stage returns at
\* once: it starts no capture process, does not sleep, calls no stop, writes no
\* key and raises nothing; the run goes on with the filesystem stage, the
\* syscall stage is not entered again, and at the end of the run the aggregate
\* holds keys of the other three stages only.
C11_NoPidSkipsSyscall ==
    /\ [](<<"syscall", "no_pid">> \in stage_log =>
            /\ "syscall" \in ended /\ stage # "syscall"
            /\ proc["syscall"] = "none" /\ stop_calls["syscall"] = 0
            /\ Range(StageKeys("syscall")) \cap DOMAIN dynamic_features = {}
            /\ Len(phases) >= 5 /\ phases[5] = "filesystem"
            /\ pc = "crashed" => "filesystem" \in ended
            /\ pc = "done" => DOMAIN dynamic_features \subseteq OtherKeys("syscall"))
    /\ [][(<<"syscall", "no_pid">> \notin stage_log /\ <<"syscall", "no_pid">> \in stage_log') =>
            /\ stage = "syscall" /\ step = "pid" /\ slept = 0
            /\ pc' = "stage" /\ stage' = "filesystem" /\ step' = FirstStep("filesystem")
            /\ slept' = 0 /\ ~raised'
            /\ UNCHANGED <<proc, sink, stop_calls, dynamic_features, lock>>]_vars

C11_Witness ==
    /\ pc = "done"
    /\ <<"syscall", "no_pid">> \in stage_log
    /\ degraded = {"syscall"}
    /\ proc = [st \in StageSet |-> IF st = "syscall" THEN "none" ELSE "exited"]
    /\ DOMAIN dynamic_features = Range(StageKeys("log")) \cup Range(StageKeys("filesystem"))
    /\ save_count = 1

\* C12: a capture process that fails to spawn gives a null handle and no
\* exception: the stage returns without sleeping, without calling stop and
\* without writing a key, and the run goes on with the next stage (or the
\* save); stop called with a null handle (and no file) does nothing, and the
\* steps stop takes in the run are those it takes for a live handle.
C12_SpawnFailureSkipsStage ==
    /\ [](\A st \in StageSet :
            /\ StopPlan(st, "none", "none") = <<>>
            /\ (pc = "stage" /\ stage = st /\ step \in {"kill", "terminate", "wait", "close"}) =>
                  step \in Range(StopPlan(st, "running", sink[st]))
            /\ <<st, "spawn_failed">> \in stage_log =>
                  /\ st \in ended /\ stage # st
                  /\ proc[st] = "none" /\ stop_calls[st] = 0
                  /\ Range(StageKeys(st)) \cap DOMAIN dynamic_features = {}
                  /\ pc \in {"stage", "save", "done", "crashed"}
                  /\ pc = "crashed" => \E o \in ended : StageIndex(o) > StageIndex(st))
    /\ [][\A st \in StageSet :
            (<<st, "spawn_failed">> \notin stage_log /\ <<st, "spawn_failed">> \in stage_log') =>
               /\ stage = st /\ step = "spawn" /\ slept = 0
               /\ ~raised'
               /\ IF NextStage(st) = "none"
                  THEN pc' = "save"
                  ELSE pc' = "stage" /\ stage' = NextStage(st) /\ step' = FirstStep(NextStage(st))
               /\ UNCHANGED <<proc, stop_calls, dynamic_features, lock>>]_vars

C12_Witness ==
    /\ pc = "done"
    /\ stage_log = {<<"log", "spawn_failed">>}
    /\ proc["log"] = "none" /\ stop_calls["log"] = 0
    /\ \A st \in StageSet \ {"log"} : proc[st] = "exited"
    /\ DOMAIN dynamic_features = Range(StageKeys("filesystem"))
    /\ save_count = 1

PhaseCount(p) == Cardinality({i \in 1 .. Len(phases) : phases[i] = p})

C17_RunReachesSave == (pc = "stage") ~> (pc \in {"save", "done"})

\* the device tools `which` does not find
MissingDeviceTools == Range(REQUIRED_DEVICE_TOOLS) \ dev_path_tools

\* C19: a tool whose binary is not on the host, or whose push or chmod fails,
\* is skipped: the loop goes on to every other missing tool, the gate does not
\* exit once the loop has begun, and it returns to run_analysis, which goes on
\* to the stages.
C19_ToolFailureSkipsOnlyThatTool ==
    /\ [](/\ pc = "exited" => attempted = {}
          /\ installed \subseteq attempted
          /\ (push_issued \ {"libc"}) \subseteq attempted
          /\ attempted \subseteq MissingDeviceTools
          /\ (pc = "install_tools" /\ install_caller = "tools") =>
                attempted \cup Range(todo) = MissingDeviceTools
          /\ pc \in {"check_app", "launch_app", "stage", "save", "done", "crashed"} =>
                attempted = MissingDeviceTools)
    /\ [][attempted' # attempted =>
             /\ pc = "install_tools" /\ pc' = "install_tools"
             /\ exit_reason' = ""
             /\ attempted' = attempted \cup {Head(todo)}
             /\ todo' = Tail(todo)]_vars

C19_Witness ==
    /\ pc = "stage" /\ stage = "log" /\ proc["log"] = "running"
    /\ dev_path_tools = {"strace"}
    /\ attempted = {"inotifywait", "tcpdump"}
    /\ push_issued = {"libc", "tcpdump"}
    /\ installed = {"tcpdump"}

\* the shared library and every device tool are on the device: found by
\* `which`, or pushed to /data/local/tmp
EverythingOnDevice ==
    dev_libc /\ Range(REQUIRED_DEVICE_TOOLS) \subseteq (dev_path_tools \cup installed)

\* C20: the gate writes to the device only when something is absent from it: a
\* gate run that has pushed nothing so far does not go into the installation
\* while the library and every tool are on the device, be they there from the
\* start or provisioned by an earlier run of the gate.
C20_GateIdempotent ==
    (pc = "install_libc" /\ push_issued = {}) => ~EverythingOnDevice

\* ------------------------------------------------- claims: parse threads

\* the parse methods that are inside `with self.lock:`
InCritical == {st \in StageSet : parser[st] \in {"write", "unlock"}}

\* the keys whose entry differs between the aggregate before and after a step
ChangedKeys ==
    {k \in DOMAIN dynamic_features' :
        k \notin DOMAIN dynamic_features \/ dynamic_features'[k] # dynamic_features[k]}

\* the assignments a parse method has made since it took the lock
WrittenUnderLock(st) == Len(StageKeys(st)) - Len(parser_counts[st])

\* C14: with parse methods of several stages running as overlapping threads on
\* the one aggregate and the one lock, at most one is inside the critical
\* section, the aggregate changes only in a step of the thread that holds the
\* lock (and only in that stage's keys), and the read of the whole aggregate
\* for the save happens when every thread is over and the lock is free.
C14_LockDiscipline ==
    /\ [](/\ Cardinality(InCritical) <= 1
          /\ \A st \in InCritical : lock = st
          /\ lock # "none" => lock \in InCritical
          /\ pc \in {"save", "done"} =>
                (lock = "none" /\ \A st \in StageSet : parser[st] \in {"done", "idle"}))
    /\ [][dynamic_features' # dynamic_features =>
             /\ pc = "parsing" /\ pc' = "parsing"
             /\ lock \in StageSet /\ lock' = lock
             /\ parser[lock] = "write"
             /\ ChangedKeys \subseteq Range(StageKeys(lock))
             /\ saved_doc' = saved_doc]_vars
    /\ [][(save_count' # save_count \/ saved_doc' # saved_doc) =>
             /\ pc = "save" /\ lock = "none" /\ InCritical = {}
             /\ dynamic_features' = dynamic_features
             /\ saved_doc' = dynamic_features]_vars

C14_Witness ==
    /\ pc = "parsing"
    /\ parser["syscall"] = "write" /\ lock = "syscall"
    /\ WrittenUnderLock("syscall") = 1
    /\ "system_calls_count" \in DOMAIN dynamic_features
    /\ parser["network"] = "lock"

\* C15: the lock is held for one key assignment at a time: the parse method
\* that holds the lock has made at most one assignment since it took it, and no
\* parse method holds the lock while it reads and counts.
C15_LockPerKeyWrite ==
    \A st \in StageSet :
        /\ lock = st => WrittenUnderLock(st) <= 1
        /\ parser[st] = "start" => lock # st

\* the keys of a stage that the aggregate holds
Present(st) == Range(StageKeys(st)) \cap DOMAIN dynamic_features

\* the values under the keys of a stage are the counts of one whole artifact
WholeCounts(st) ==
    \E lines \in Artifacts(st) :
        \A i \in 1 .. Len(StageKeys(st)) :
            dynamic_features[StageKeys(st)[i]] = ParseCounts(st, lines)[i]

C22_StopAfterDurationUnlessInterrupted ==
    /\ []((pc = "stage" /\ stop_calls[stage] > 0 /\ ~raised) => slept = Duration)
    /\ [][(pc = "stage" /\ step = "sleep" /\ step' # "sleep")
            => (/\ stop_calls'[stage] = stop_calls[stage] + 1
                /\ step' = StopFirstStep(stage)
                /\ (~raised' => slept = Duration))]_vars

\* the sleep returned after the whole duration and stop was called
C22_Witness ==
    /\ pc = "stage"
    /\ stage = "network"
    /\ step = StopFirstStep(stage)
    /\ stop_calls[stage] = 1
    /\ ~raised
    /\ slept = Duration
    /\ proc[stage] = "running"

\* C22 as stated: stop is never called before the duration has been slept
C22_StopNeverBeforeDuration ==
    (pc = "stage" /\ stop_calls[stage] > 0) => slept = Duration

\* ------------------------------------- claims: first version of the script

\* C21: stop signals the tool on the device, terminates the local process,
\* waits until it has exited and then closes the file sink; in particular the
\* host file a capture process writes to is never closed while that process
\* has not exited.  Stated for the first version of the script, whose
\* start_logcat and start_inotifywait open the file in a with block.
C21_SinkClosedOnlyAfterExit ==
    \A st \in StageSet :
        outfile[st] = "closed" => legacy_process[st] \in {"none", "exited"}

\* ------------------------------------- claims: the GUI's dynamic analysis

\* install_apk has returned, or an exception has left it
InstallOver ==
    emulator_thread.pc \notin {"created", "start_emulator", "check_emulator_ready", "install_apk"}

\* check_emulator_ready has returned
CheckOver == emulator_thread.check_outcome # "none"

\* C23: when the pull of the capture fails, the failure is logged, the run goes
\* on to emit pcap_loaded_to_host, the extraction emits no processed_data_signal
\* and no dynamic classification is started.
C23_PullFailureDegradesToNoFeatures ==
    emulator_thread.pull = "failed" =>
        /\ emulator_thread.emitted["log: failed to pull the file"] = 1
        /\ emulator_thread.pc = "finished" => emulator_thread.emitted["pcap_loaded_to_host"] = 1
        /\ worker \notin {"emitted", "delivered"}
        /\ classified = 0

\* C24: check_emulator_ready ends with a result: it reports that the device is
\* ready or it reports a failure, also when the emulator process is alive and no
\* poll finds the device ready.
C24_PollingEndsWithResult ==
    (CheckOver /\ emulator_thread.process = "alive") =>
        \/ emulator_thread.check_outcome = "ready"
        \/ emulator_thread.emitted["error: emulator process has stopped"] > 0

\* C25: after a failed installation the dynamic analysis does not proceed:
\* tcpdump and Monkey are not started, nothing is pulled, pcap_loaded_to_host is
\* not emitted and no dynamic classification follows.
C25_FailedInstallStopsAnalysis ==
    (InstallOver /\ ~emulator_thread.installed) =>
        /\ emulator_thread.adb_shell = "none"
        /\ emulator_thread.tcpdump = "none"
        /\ emulator_thread.monkey = "none"
        /\ emulator_thread.pull = "none"
        /\ emulator_thread.emitted["pcap_loaded_to_host"] = 0
        /\ worker = "none"
        /\ classified = 0

\* C26: install_apk makes at most max_retries attempts and stops at the first
\* that exits with 0; installed is set and apk_installed emitted, once, exactly
\* when an attempt succeeded; when every attempt failed installed stays False,
\* apk_installed is not emitted and one error is emitted after the last attempt.
C26_InstallRetries ==
    LET t == emulator_thread
        failed == InstallOver /\ ~t.installed
    IN  /\ t.attempts <= max_retries
        /\ t.emitted["apk_installed"] = (IF t.installed THEN 1 ELSE 0)
        /\ t.attempts = (IF t.installed THEN t.retries + 1 ELSE t.retries)
        /\ t.installed => InstallOver
        /\ t.emitted["error: install failed after retries"] =
              (IF failed /\ t.retries = max_retries THEN 1 ELSE 0)
        /\ (failed /\ t.retries < max_retries) =>
              (t.pc = "finished" /\ t.attempts = 1 /\ t.emitted["error: run"] = 1)
        /\ (t.pc = "installed?" /\ ~t.installed) =>
              (t.emitted["error: run"] = 0 /\ t.attempts = max_retries)

\* the second attempt succeeded
C26_Witness ==
    /\ emulator_thread.pc = "installed?"
    /\ emulator_thread.installed
    /\ emulator_thread.attempts = 2
    /\ emulator_thread.emitted["apk_installed"] = 1

\* C27: when check_emulator_ready found the emulator process stopped, or the
\* emulator failed to start, no install attempt is made.
C27_InstallOnlyIfEmulatorRunning ==
    (emulator_thread.process \in {"unset", "stopped"} /\ CheckOver /\ ~emulator_thread.emu_kill)
        => emulator_thread.attempts = 0

\* C28: tcpdump is started before Monkey and captures while Monkey runs; it is
\* stopped only after Monkey has finished and the sleep has returned; the pcap
\* is pulled only after tcpdump was stopped and pcap_loaded_to_host emitted only
\* after the pull; when the capture raises tcpdump is not left running.
C28_CaptureOrder ==
    LET t == emulator_thread
    IN  /\ t.monkey # "none" => t.monkey_during = "running"
        /\ t.monkey = "running" => t.tcpdump = "running"
        /\ t.tcpdump = "stopped" => t.stopped_after = "monkey and sleep"
        /\ t.pull # "none" => t.pull_during = "stopped"
        /\ t.emitted["pcap_loaded_to_host"] > 0 => t.pull # "none"
        /\ (t.emitted["error: tcpdump and Monkey"] > 0) => t.tcpdump # "running"

\* ---- claims: the fused class and the selected APK ----

\* C29: when the static and the dynamic class agree, the fused class is the
\* class they agree on.
C29_AgreementPreserved ==
    (has_outcome /\ static_classification = dynamic_classification)
        => hybrid_class = HybridClass(static_classification)

\* a click on 'Hybrid Analysis' that computes an outcome
FusesNow ==
    /\ calls' > calls
    /\ log_msg' = "Combined Probability Calculation Complete"

\* C30: after an APK is selected, no outcome is computed until both the static
\* and the dynamic analysis have completed for that APK: every outcome is
\* computed from results of the APK that is selected.
C30_FusesOnlyResultsOfSelectedApk ==
    [][FusesNow => (static_of = apk_file /\ dynamic_of = apk_file)]_vars

\* a click on 'Hybrid Analysis' while the stored dynamic result is the
\* (None, None, None) of a failed classifier
CalcAfterFailedClassifier ==
    /\ dyn_state = "none"
    /\ calls' > calls

C33_GateExitsOnlyOnPreconditions ==
    pc = "exited" => exit_reason \in {"host_tools", "no_device"}

\* ---- claims: the fusion in doubles ----

\* n times x, for a small n, in one limb more
Times(x, n) ==
    Propagate([i \in 1 .. Len(x) + 1 |-> IF i <= Len(x) THEN n * x[i] ELSE 0], 0)

\* p >= 5/6, p < 1/6 and p <= 1/6 - 2^-53, decided exactly
AtLeastFiveSixths(p) == ~BigLess(Times(p, 6), Times(DoubleOne, 5))

BelowOneSixth(p) == BigLess(Times(p, 6), Times(DoubleOne, 1))

WellBelowOneSixth(p) ==
    ~BigLess(Times(DoubleOne, 1), Times(BigAdd(p, <<128, 0, 0, 0, 0>>), 6))

\* C34: with the weights 0.60 and 0.40 the static probability cannot change
\* the verdict when the dynamic probability of malicious is extreme: the class
\* is malicious whenever it is at least 5/6, benign whenever it is at most
\* 1/6 - 2^-53, and benign when it is 0, whatever the static probability.
C34_ExtremeDynamicDecides ==
    double_overall # -1 =>
        /\ AtLeastFiveSixths(double_P_dynamic) => double_overall = 1
        /\ WellBelowOneSixth(double_P_dynamic) => double_overall = 0
        /\ IsZero(double_P_dynamic) => double_overall = 0

\* the dynamic probability is four units in the last place under the double
\* nearest 1/6, the static probability is 1.0: P_combined is the double just
\* under 0.5 and the class is benign
C34_Witness ==
    /\ double_overall = 0
    /\ double_static = DoubleOne
    /\ double_class = 1
    /\ double_P_dynamic = <<2592, 5461, 2730, 5461, 42>>
    /\ WellBelowOneSixth(double_P_dynamic)
    /\ double_P_combined = <<8128, 8191, 8191, 8191, 127>>

\* C34 as stated: benign whenever the dynamic probability is below 1/6
C34_BelowOneSixthIsBenign ==
    double_overall # -1 =>
        /\ AtLeastFiveSixths(double_P_dynamic) => double_overall = 1
        /\ BelowOneSixth(double_P_dynamic) => double_overall = 0
        /\ IsZero(double_P_dynamic) => double_overall = 0

\* the dependency gate has not made any of its checks
GateNotRun ==
    /\ pc = "gate_host"
    /\ precondition_checks = 0
    /\ gate_reads = {}
    /\ push_issued = {}

\* C35: install_app uninstalls an installed version of the package before it
\* installs: adb install is never issued while the previous version is on the
\* device, and when the APK file is missing, the uninstall fails or the install
\* fails, the process has exited before the dependency gate made a check.
C35_UninstallBeforeInstall ==
    /\ install_issued_over # "previous"
    /\ main_exit \in {"apk_not_found", "uninstall_failed", "install_failed"} =>
          (main_pc = "exited" /\ GateNotRun)

====
